---- MODULE Spec2Model ----
(***************************************************************************)
(* A model of the memory server of jcoffi/Qdrant_Memory_MCP:               *)
(*   - GenericMemoryService (src/src/generic_memory_service.py): the       *)
(*     collection and record operations and the legacy agent routing;      *)
(*   - SystemAndCollectionsHandlers                                        *)
(*     (src/src/handlers/system_and_collections_handlers.py): the tool     *)
(*     handlers that sit on top of the service;                            *)
(*   - EmbeddingService (src/src/memory/embedding_service.py): the second  *)
(*     implementation of the content hash;                                 *)
(*   - the retry policy configured by ErrorHandlingConfig                  *)
(*     (src/src/server_config.py);                                         *)
(*   - MemoryMCPServer (src/src/mcp_server.py) and the protocol loop that  *)
(*     run_mcp_server starts;                                              *)
(*   - the process-wide error counters and handle_system_health, which     *)
(*     reports them;                                                       *)
(*   - ensure_qdrant_container of the two launchers                        *)
(*     (src/src/mcp_container_launcher.py,                                 *)
(*     src/scripts/start_mcp_container.py).                                *)
(* The vector store (Qdrant) is modelled by its contract: a listing of     *)
(* collection names and, per collection, a set of points keyed by id.      *)
(* CollectionManager, the error handler and the protocol handler are not   *)
(* part of the sources at hand; they are modelled from the written         *)
(* specification.                                                          *)
(***************************************************************************)
EXTENDS Naturals, Integers, Sequences, FiniteSets, TLC

VARIABLES
    initialized,        \* GenericMemoryService.initialized
    client,             \* GenericMemoryService.client is not None
    collection_manager, \* GenericMemoryService.collection_manager is not None
    embedding_model,    \* GenericMemoryService.embedding_model is not None
    current_user,       \* GenericMemoryService.current_user
    collections,        \* the store's collections, in its listing order
    points,             \* the store's points, per collection name
    registry,           \* CollectionManager's metadata, per collection name
    mutations,          \* number of store mutations so far (bounded)
    last,               \* the last call and its response
    retry,              \* state of one wrapped adapter call (retry policy)
    mcp,                \* MemoryMCPServer: its fields and its last call
    protocol,           \* the protocol loop: session, tasks in flight, output
    tasks,              \* the tool-call tasks that run concurrently
    error_stats,        \* the process-wide error counters
    docker,             \* the docker daemon: the Qdrant container of the launchers
    launchers           \* the launcher processes, each at a point of its start-up

vars == <<initialized, client, collection_manager, embedding_model, current_user,
          collections, points, registry, mutations, last, retry, mcp, protocol,
          tasks, error_stats, docker, launchers>>

hostVars == <<error_stats, docker, launchers>>
serverVars == <<mcp, protocol, tasks, hostVars>>

svcVars == <<initialized, client, collection_manager, embedding_model>>
storeVars == <<collections, points, registry, mutations>>

----------------------------------------------------------------------------
(* Bounds of the model *)

\* Store mutations explored along one behaviour.
MaxMutations == 2

\* Largest jitter added to a backoff delay, in tenths of a second.
MaxJitter == 2

\* Input lines read by the protocol loop along one behaviour.
MaxLines == 3

\* Failure events recorded along one behaviour.
MaxErrors == 2

----------------------------------------------------------------------------
(* Inputs *)

AgentPrefix == "agent_specific_memory_"

\* GenericMemoryService.add_to_agent_memory: f"agent_specific_memory_{target_agent_id}"
AgentCollectionName(target_agent_id) == AgentPrefix \o target_agent_id

\* The fallback name of add_to_agent_memory.
DefaultAgentCollection == "agent_specific_memory_default"

\* GenericMemoryService.legacy_collections: the collections of the legacy
\* memory types.
LegacyCollections ==
    [global |-> "global_memory", learned |-> "learned_memory",
     agent |-> "agent_memory"]

\* Every collection name of the model.
Names == {"notes", AgentCollectionName("7"), AgentCollectionName("42"),
          DefaultAgentCollection, LegacyCollections.global,
          LegacyCollections.learned}

\* The names the record operations are exercised on.
CoreNames == {"notes", AgentCollectionName("7")}

\* agent_id arguments; "" stands for None (agent_id or "default").
AgentIds == {"", "7", "42"}

Users == {"system", "alice"}

\* Content strings.
Contents == {"a", "ab", "b"}

\* Content strings of the search operations, and the queries.
SearchContents == {"a", "b", "buy milk"}
Queries == {"a", "milk"}
AllContents == Contents \cup SearchContents

----------------------------------------------------------------------------
(* The content hash: uuid5(namespace, content) *)

\* Code points of the characters that occur in the content strings.
CharCode ==
    [ch \in {"a", "b", "u", "y", " ", "m", "i", "l", "k"} |->
        CASE ch = "a" -> 97  [] ch = "b" -> 98  [] ch = "u" -> 117
          [] ch = "y" -> 121 [] ch = " " -> 32  [] ch = "m" -> 109
          [] ch = "i" -> 105 [] ch = "l" -> 108 [] ch = "k" -> 107]

\* content.encode(): the bytes of a string.
Bytes(s) == [i \in 1..Len(s) |-> CharCode[SubSeq(s, i, i)]]

\* Width of a record id in the model: ids are numbers below IdSpace.
IdSpace == 2^16

\* The digest inside uuid5: a fold over the bytes of namespace + name.  SHA-1 is
\* replaced by a polynomial fold, which like SHA-1 reads every byte of its input
\* and nothing else.
RECURSIVE Digest(_, _)
Digest(bytes, h) ==
    IF bytes = <<>> THEN h
    ELSE Digest(Tail(bytes), (h * 31 + Head(bytes)) % IdSpace)

\* uuid.uuid5(namespace, name)
Uuid5(namespace, name) == Digest(namespace \o Bytes(name), 0)

\* uuid.UUID("12345678-1234-5678-1234-123456789abc").bytes in GenericMemoryService
GenericNamespace ==
    <<18, 52, 86, 120, 18, 52, 86, 120, 18, 52, 18, 52, 86, 120, 154, 188>>

\* uuid.UUID("12345678-1234-5678-1234-123456789abc").bytes in EmbeddingService
EmbeddingNamespace ==
    <<18, 52, 86, 120, 18, 52, 86, 120, 18, 52, 18, 52, 86, 120, 154, 188>>

\* uuid.NAMESPACE_DNS (6ba7b810-9dad-11d1-80b4-00c04fd430c8): a namespace other
\* than the one EmbeddingService uses.
GenerateContentHashOtherNamespace(content) ==
    Uuid5(<<107, 167, 184, 16, 157, 173, 17, 209, 128, 180, 0, 192, 79, 212, 48, 200>>,
          content)

\* GenericMemoryService._generate_content_hash
GenerateContentHash(content) == Uuid5(GenericNamespace, content)

\* EmbeddingService._generate_content_hash / generate_content_hash
EmbeddingGenerateContentHash(content) == Uuid5(EmbeddingNamespace, content)

----------------------------------------------------------------------------
(* The vector store's contract *)

Min(a, b) == IF a <= b THEN a ELSE b

\* str.startswith
StartsWith(s, prefix) ==
    Len(s) >= Len(prefix) /\ SubSeq(s, 1, Len(prefix)) = prefix

\* The names of a listing, as a set.
Range(seq) == {seq[i] : i \in 1..Len(seq)}

\* client.get_collection(name) succeeds iff the collection exists.
Exists(name) == name \in Range(collections)

\* An upsert that never replaces: every call adds a point.
UpsertAppend(pts, point) == pts \cup {point}

\* client.upsert(collection_name, points=[point]): the point replaces the point of
\* the same id, if there is one.
Upsert(pts, point) == {p \in pts : p.id # point.id} \cup {point}

\* client.delete(collection_name, points_selector=[memory_id])
DeletePoint(pts, memory_id) == {p \in pts : p.id # memory_id}

\* Cosine similarity, in hundredths, of the embeddings of two content strings
\* (embedding_model.encode and the store's scoring).
Similarity(s, t) ==
    IF s = t THEN 100
    ELSE IF {s, t} = {"a", "ab"} THEN 85
    ELSE IF {s, t} = {"a", "b"} THEN 80
    ELSE IF {s, t} = {"milk", "buy milk"} THEN 70
    ELSE IF {s, t} \cap {"milk", "buy milk"} # {} THEN 5
    ELSE 79

\* Similarity of the nearest existing record of a collection to new content;
\* -1 when the collection holds no record.
NearestSimilarity(pts, content) ==
    IF pts = {} THEN -1
    ELSE CHOOSE m \in {Similarity(p.payload.content, content) : p \in pts} :
             \A p \in pts : Similarity(p.payload.content, content) <= m

\* DeduplicationConfig.similarity_threshold (0.85), in hundredths
similarity_threshold == 85

\* DeduplicationConfig.near_miss_threshold (0.80), in hundredths
near_miss_threshold == 80

----------------------------------------------------------------------------
(* CollectionManager, modelled from the written specification (section 4.2) *)

\* Default permissions when none are given: read = {"*"}, write = admin = {created_by}.
DefaultPermissions(created_by) ==
    [read |-> {"*"}, write |-> {created_by}, admin |-> {created_by}]

\* CollectionManager.get_collection(name).get("success")
Registered(name) == name \in DOMAIN registry

\* Whether a principal may write to (or delete from) a registered collection:
\* it is in the write set or the admin set, or the set holds "*".
MayWrite(name, principal) ==
    /\ Registered(name)
    /\ \/ {principal, "*"} \cap registry[name].permissions.write # {}
       \/ {principal, "*"} \cap registry[name].permissions.admin # {}

\* The listing without one name.
Without(seq, x) == SelectSeq(seq, LAMBDA y : y # x)

----------------------------------------------------------------------------
(* Calls and responses *)

\* The record of a call: its operation and arguments, and what it answered.
\*   success  the service's "success", or for a tool handler "isError" absent
\*   error    the kind of failure, "" on success
\*   target   the collection an add wrote to or tried to write to
\*   existed  whether the target held a record of the same id before an add
\*   diagnostic  the near-miss diagnostic an add logged, "" for none
\*   payload  the payload an add handed to the store, <<>> when it handed none
\*   searched, limit, min_score  the arguments of a search (its query is content)
\*   skipped  the collections a search left out (not registered, or the store raised)
\*   results, total_results  what a search answered
Call(op, name, content, confirm, success, error, target) ==
    [op |-> op, name |-> name, content |-> content, confirm |-> confirm,
     user |-> current_user, success |-> success, error |-> error,
     target |-> target,
     memory_id |-> IF content \in AllContents THEN GenerateContentHash(content)
                   ELSE 0,
     existed |-> /\ target \in Names
                 /\ content \in AllContents
                 /\ \E p \in points[target] : p.id = GenerateContentHash(content),
     diagnostic |-> "",
     payload |-> <<>>,
     searched |-> <<>>, limit |-> 0, min_score |-> 0, skipped |-> {},
     failed |-> {},
     results |-> <<>>, total_results |-> 0]

NoCall == [op |-> "", name |-> "", content |-> "", confirm |-> FALSE,
           user |-> "", success |-> FALSE, error |-> "", target |-> "",
           memory_id |-> 0, existed |-> FALSE, diagnostic |-> "",
           payload |-> <<>>,
           searched |-> <<>>, limit |-> 0, min_score |-> 0, skipped |-> {},
           failed |-> {},
           results |-> <<>>, total_results |-> 0]

\* GenericMemoryService._ensure_initialized
\* A test that takes the client for the whole service.
EnsureInitializedClientOnly == client

EnsureInitialized ==
    initialized /\ client /\ collection_manager /\ embedding_model

----------------------------------------------------------------------------
(* GenericMemoryService *)

\* The registry entry of a collection made by "system" with default permissions.
SystemEntry ==
    [permissions |-> DefaultPermissions("system"), created_by |-> "system"]

\* __init__: nothing is set up and the user is "system".  The store outlives the
\* process: it starts with one of the given listings, every collection empty, and
\* the collections of the listing that are in `known` are registered.
InitWith(listings, known) ==
    /\ initialized = FALSE
    /\ client = FALSE
    /\ collection_manager = FALSE
    /\ embedding_model = FALSE
    /\ current_user = "system"
    /\ collections \in listings
    /\ points = [n \in Names |-> {}]
    /\ registry = [n \in Range(collections) \cap known |-> SystemEntry]
    /\ mutations = 0
    /\ last = NoCall

\* No MemoryMCPServer has been constructed.
McpIdle == [server_mode |-> "", memory_manager |-> FALSE, prompt_handlers |-> FALSE,
            op |-> "", name |-> "", invoked |-> FALSE, response |-> <<>>]

\* No protocol loop is running.
\*   session      UNINITIALIZED, READY or SHUTTING_DOWN
\*   lines        the kinds of the input lines read so far; line n has id n
\*   in_flight    the ids of the dispatched calls that have not completed
\*   ready        the responses that wait to be written
\*   writing      the response that is being written, <<>> for none
\*   output       the output stream, in chunks
\*   at_shutdown  the ids in flight when shutdown was received
ProtocolIdle == [session |-> "", lines |-> <<>>, in_flight |-> {}, ready |-> {},
                 writing |-> <<>>, output |-> <<>>, exited |-> FALSE,
                 at_shutdown |-> {}]

\* No tool-call task has been dispatched.
NoTasks == <<>>

\* No failure has been recorded.
NoErrors ==
    [total_errors |-> 0, recovery_attempts |-> 0, successful_recoveries |-> 0,
     errors_by_category |-> <<>>]

\* No launcher process is looked at.
NoDocker == [container |-> "", created |-> 0, pull_always_known |-> FALSE]
NoLaunchers == <<>>
HostIdle == error_stats = NoErrors /\ docker = NoDocker /\ launchers = NoLaunchers

\* The service is used without the MCP server, the protocol loop and its tasks.
ServerIdle ==
    mcp = McpIdle /\ protocol = ProtocolIdle /\ tasks = NoTasks /\ HostIdle

\* No wrapped adapter call has been made.
RetryIdle ==
    [status |-> "idle", cfg |-> <<>>, tries |-> 0, delays |-> <<>>, category |-> ""]

Init ==
    /\ InitWith({<<>>, <<"notes", AgentCollectionName("7")>>}, CoreNames)
    /\ retry = RetryIdle
    /\ ServerIdle

\* initialize(): the client, the collection manager and the embedding model are set
\* in this order; an exception at any stage leaves the earlier assignments and
\* returns success = False.
Initialize ==
    \E stage \in 0..3 :
        /\ client' = (client \/ stage >= 1)
        /\ collection_manager' = (collection_manager \/ stage >= 2)
        /\ embedding_model' = (embedding_model \/ stage >= 3)
        /\ initialized' = (initialized \/ stage = 3)
        /\ last' = Call("initialize", "", "", FALSE, stage = 3,
                        IF stage = 3 THEN "" ELSE "Exception", "")
        /\ UNCHANGED <<current_user, storeVars, retry, serverVars>>

\* set_user_context(user_id)
SetUserContext ==
    \E user_id \in Users :
        /\ current_user' = user_id
        /\ last' = [Call("set_user_context", "", "", FALSE, TRUE, "", "")
                      EXCEPT !.user = user_id]
        /\ UNCHANGED <<svcVars, storeVars, retry, serverVars>>

\* dict.get(key, default) on a permissions argument.
Get(d, key, default) == IF key \in DOMAIN d THEN d[key] ELSE default

\* permissions arguments of create_collection: None (the empty dict, which the code
\* treats alike), or a dict with some keys.
PermissionInputs == {<<>>, [write |-> {"*"}]}

\* create_collection, lines 108-115: the CollectionPermissions built from the
\* permissions argument; None is left to the manager's default.
PermObj(permissions) ==
    IF DOMAIN permissions = {} THEN DefaultPermissions(current_user)
    ELSE [read  |-> Get(permissions, "read", {"*"}),
          write |-> Get(permissions, "write", {current_user}),
          admin |-> Get(permissions, "admin", {current_user})]

\* The outcome of create_collection: "" is success.
CreateCollectionError(name, fault) ==
    IF ~EnsureInitialized THEN "NotInitialized"
    ELSE IF Exists(name) \/ Registered(name) THEN "AlreadyExists"
    ELSE IF fault THEN "Exception"
    ELSE ""

\* The effect of create_collection on the store and the registry: the new
\* collection comes last in the listing.
CreateCollectionEffect(name, permissions, fault) ==
    IF CreateCollectionError(name, fault) = ""
    THEN /\ mutations < MaxMutations
         /\ collections' = Append(collections, name)
         /\ points' = [points EXCEPT ![name] = {}]
         /\ registry' = (name :> [permissions |-> PermObj(permissions),
                                   created_by |-> current_user]) @@ registry
         /\ mutations' = mutations + 1
    ELSE UNCHANGED storeVars

\* create_collection(name, ..., permissions)
CreateCollection(names) ==
    \E name \in names, permissions \in PermissionInputs, fault \in BOOLEAN :
        /\ CreateCollectionEffect(name, permissions, fault)
        /\ last' = Call("create_collection", name, "", FALSE,
                        CreateCollectionError(name, fault) = "",
                        CreateCollectionError(name, fault), "")
        /\ UNCHANGED <<svcVars, current_user, retry, serverVars>>

\* The outcome of delete_collection(name, confirm): "" is success.
DeleteCollectionError(name, confirm) ==
    IF ~EnsureInitialized THEN "NotInitialized"
    ELSE IF ~confirm THEN "ConfirmationRequired"
    ELSE IF ~Registered(name) THEN "NotFound"
    ELSE ""

\* The effect of delete_collection: the collection, its records and its metadata go.
DeleteCollectionEffect(name, confirm) ==
    IF DeleteCollectionError(name, confirm) = ""
    THEN /\ mutations < MaxMutations
         /\ collections' = Without(collections, name)
         /\ points' = [points EXCEPT ![name] = {}]
         /\ registry' = [n \in (DOMAIN registry) \ {name} |-> registry[n]]
         /\ mutations' = mutations + 1
    ELSE UNCHANGED storeVars

\* delete_collection(name, confirm=False)
DeleteCollection(names) ==
    \E name \in names, confirm \in BOOLEAN :
        /\ DeleteCollectionEffect(name, confirm)
        /\ last' = Call("delete_collection", name, "", confirm,
                        DeleteCollectionError(name, confirm) = "",
                        DeleteCollectionError(name, confirm), "")
        /\ UNCHANGED <<svcVars, current_user, retry, serverVars>>

\* (metadata, tags) arguments of add_memory; <<>> is None (or empty).
Extras == {[metadata |-> <<>>, tags |-> <<>>],
           [metadata |-> [added_by |-> "root"], tags |-> <<"t">>]}

\* add_memory, lines 256-263: the payload; the caller's metadata is spread last.
\* datetime.now() is the token "now".
FullMetadata(collection, content, metadata, tags) ==
    metadata @@
    [content |-> content,
     collection |-> collection,
     added_by |-> current_user,
     timestamp |-> "now",
     tags |-> tags]

\* An add_memory that does not look the collection up in the registry.
AddMemoryErrorNoLookup(collection, fault) ==
    IF ~EnsureInitialized THEN "NotInitialized"
    ELSE IF fault \/ ~Exists(collection) THEN "Exception"
    ELSE ""

\* The outcome of add_memory: "" is success.
AddMemoryError(collection, fault) ==
    IF ~EnsureInitialized THEN "NotInitialized"
    ELSE IF ~Registered(collection) THEN "NotFound"
    ELSE IF fault \/ ~Exists(collection) THEN "Exception"
    ELSE ""

\* add_memory(collection, content, metadata, tags), for arguments of given sets
AddMemoryOf(names, contents, extras) ==
    \E collection \in names, content \in contents, extra \in extras,
       fault \in BOOLEAN :
        /\ IF AddMemoryError(collection, fault) = ""
           THEN /\ mutations < MaxMutations
                /\ points' = [points EXCEPT ![collection] =
                       Upsert(@, [id |-> GenerateContentHash(content),
                                  payload |-> FullMetadata(collection, content,
                                                  extra.metadata, extra.tags)])]
                /\ mutations' = mutations + 1
                /\ UNCHANGED <<collections, registry>>
           ELSE UNCHANGED storeVars
        /\ last' = [Call("add_memory", collection, content, FALSE,
                         AddMemoryError(collection, fault) = "",
                         AddMemoryError(collection, fault), collection)
                      EXCEPT !.payload =
                          IF AddMemoryError(collection, fault) \in {"", "Exception"}
                          THEN FullMetadata(collection, content,
                                            extra.metadata, extra.tags)
                          ELSE <<>>]
        /\ UNCHANGED <<svcVars, current_user, retry, serverVars>>

\* add_memory on the content strings of the record operations
AddMemory(names) == AddMemoryOf(names, Contents, Extras)

\* The outcome of delete_memory: "" is success.
DeleteMemoryError(collection, fault) ==
    IF ~EnsureInitialized THEN "NotInitialized"
    ELSE IF fault \/ ~Exists(collection) THEN "Exception"
    ELSE ""

\* delete_memory(memory_id, collection); the memory_id is the id of some content.
DeleteMemory(names) ==
    \E collection \in names, content \in Contents, fault \in BOOLEAN :
        /\ IF DeleteMemoryError(collection, fault) = ""
           THEN /\ mutations < MaxMutations
                /\ points' = [points EXCEPT ![collection] =
                       DeletePoint(@, GenerateContentHash(content))]
                /\ mutations' = mutations + 1
                /\ UNCHANGED <<collections, registry>>
           ELSE UNCHANGED storeVars
        /\ last' = Call("delete_memory", collection, content, FALSE,
                        DeleteMemoryError(collection, fault) = "",
                        DeleteMemoryError(collection, fault), collection)
        /\ UNCHANGED <<svcVars, current_user, retry, serverVars>>

----------------------------------------------------------------------------
(* Search: search_memory and the legacy _search_memory_sync; scores are in *)
(* hundredths.                                                              *)

\* The score the store gives a point for a query.
Score(query, p) == Similarity(query, p.payload.content)

\* client.search(collection_name, query_vector, limit, score_threshold): the
\* answers the store may give.  Each is the points of the collection that score
\* at least score_threshold, best first, cut to limit; the order among points of
\* equal score is the store's.
ClientSearch(collection_name, query, limit, score_threshold) ==
    LET eligible == {p \in points[collection_name] :
                        Score(query, p) >= score_threshold}
        n == Min(limit, Cardinality(eligible))
    IN {h \in [1..n -> eligible] :
          /\ \A i, j \in 1..n : i < j =>
                 h[i] # h[j] /\ Score(query, h[i]) >= Score(query, h[j])
          /\ \A p \in eligible \ Range(h) : \A i \in 1..n :
                 Score(query, p) <= Score(query, h[i])}

\* search_memory, lines 349-358: the entries made from the hits of one collection.
ResultEntries(collection_name, query, hits) ==
    [i \in 1..Len(hits) |->
        [id |-> hits[i].id, score |-> Score(query, hits[i]),
         collection |-> collection_name, payload |-> hits[i].payload]]

\* Where list.sort(key=score, reverse=True) puts one more entry: behind every
\* entry of at least its score (the sort is stable).
InsertByScore(sorted, x) ==
    LET k == Cardinality({i \in 1..Len(sorted) : sorted[i].score >= x.score})
    IN SubSeq(sorted, 1, k) \o <<x>> \o SubSeq(sorted, k + 1, Len(sorted))

\* A merge that leaves the entries in the order of the collections list.
SortKeepOrder(entries) == entries

\* all_results.sort(key=lambda x: x["score"], reverse=True)
RECURSIVE SortByScore(_)
SortByScore(entries) ==
    IF entries = <<>> THEN <<>>
    ELSE InsertByScore(SortByScore(SubSeq(entries, 1, Len(entries) - 1)),
                       entries[Len(entries)])

\* all_results[:limit]
Truncate(entries, limit) == SubSeq(entries, 1, Min(limit, Len(entries)))

\* The collections arguments of a search; at most two names.
SearchLists == {<<>>, <<"notes">>, <<"notes", AgentCollectionName("7")>>,
                <<AgentCollectionName("7"), "notes">>}

\* limit and min_score arguments (0.0 and 0.1).
Limits == {1, 5}
MinScores == {0, 10}

\* A registry test that leaves out the registered collections.
SkippedUnregisteredInverted(collection_name, legacy) ==
    ~legacy /\ Registered(collection_name)

\* search_memory, lines 337-345 (_search_memory_sync has no such test): whether a
\* collection of the list is left out before the store is asked.
SkippedUnregistered(collection_name, legacy) ==
    ~legacy /\ ~Registered(collection_name)

\* A search of one collection that answers although the store call for it was
\* made to fail.
CollectionResultsDespiteFailure(name, query, limit, min_score, faults, legacy) ==
    IF \/ SkippedUnregistered(name, legacy)
       \/ ~Exists(name)
       \/ ~client
    THEN {<<>>}
    ELSE {ResultEntries(name, query, h) :
             h \in ClientSearch(name, query, limit, min_score)}

\* The answers the search of one collection of the list may contribute: none
\* when the collection is left out or the store raises (the store raises for a
\* collection that does not exist).
CollectionResults(collection_name, query, limit, min_score, faults, legacy) ==
    IF \/ SkippedUnregistered(collection_name, legacy)
       \/ collection_name \in faults
       \/ ~Exists(collection_name)
       \/ ~client
    THEN {<<>>}
    ELSE {ResultEntries(collection_name, query, h) :
             h \in ClientSearch(collection_name, query, limit, min_score)}

\* The collections of a list that contributed nothing because they were left out
\* (the store cannot be asked at all while there is no client).
SkippedOf(names, faults, legacy) ==
    {n \in Range(names) : \/ SkippedUnregistered(n, legacy)
                          \/ n \in faults
                          \/ ~Exists(n)
                          \/ ~client}

\* search_memory, lines 347-363, and _search_memory_sync, lines 840-858: the
\* collections of a list for which client.search raised, which the except
\* clause of the loop body passes over.
FailedOf(names, faults, legacy) ==
    {n \in Range(names) : /\ ~SkippedUnregistered(n, legacy)
                          /\ \/ n \in faults
                             \/ ~Exists(n)
                             \/ ~client}

\* The outcome of a search: "" is success.  search_memory tests
\* _ensure_initialized; _search_memory_sync does not, and fails when _embed_text
\* raises for want of an embedding model.
SearchMemoryError(legacy) ==
    IF ~legacy /\ ~EnsureInitialized THEN "NotInitialized"
    ELSE IF legacy /\ ~embedding_model THEN "Exception"
    ELSE ""

\* search_memory(query, collections, limit, min_score) and, with legacy,
\* _search_memory_sync(collection_names, query, limit, min_score).  The two differ
\* in the registry test and in total_results, which the legacy form counts
\* before the cut to limit.
SearchMemory(legacy) ==
    \E query \in Queries, names \in SearchLists, limit \in Limits,
       min_score \in MinScores, faults \in SUBSET {AgentCollectionName("7")} :
        /\ IF SearchMemoryError(legacy) # ""
           THEN last' = [Call(IF legacy THEN "_search_memory_sync"
                              ELSE "search_memory",
                              "", query, FALSE, FALSE, SearchMemoryError(legacy), "")
                           EXCEPT !.searched = names, !.limit = limit,
                                  !.min_score = min_score]
           ELSE \E first \in IF Len(names) >= 1
                              THEN CollectionResults(names[1], query, limit,
                                                     min_score, faults, legacy)
                              ELSE {<<>>},
                   second \in IF Len(names) >= 2
                               THEN CollectionResults(names[2], query, limit,
                                                      min_score, faults, legacy)
                               ELSE {<<>>} :
                  LET all_results == SortByScore(first \o second)
                  IN last' = [Call(IF legacy THEN "_search_memory_sync"
                                   ELSE "search_memory",
                                   "", query, FALSE, TRUE, "", "")
                                EXCEPT !.searched = names, !.limit = limit,
                                       !.min_score = min_score,
                                       !.skipped = SkippedOf(names, faults, legacy),
                                       !.failed = FailedOf(names, faults, legacy),
                                       !.results = Truncate(all_results, limit),
                                       !.total_results =
                                           IF legacy THEN Len(all_results)
                                           ELSE Len(Truncate(all_results, limit))]
        /\ UNCHANGED <<svcVars, current_user, storeVars, retry, serverVars>>

----------------------------------------------------------------------------
(* The legacy surface: add_to_agent_memory *)

\* Points at which one call of add_to_agent_memory can meet a failing store call.
AgentFaults == {"none", "get_collection", "get_collections", "upsert"}

\* add_to_agent_memory, line 582: agent_id or "default" ("" is None)
TargetAgentId(agent_id) == IF agent_id = "" THEN "default" ELSE agent_id

\* add_to_agent_memory, lines 595-600: the names of the listing that start with
\* the agent prefix, in listing order.
AgentCollections ==
    SelectSeq(collections, LAMBDA n : StartsWith(n, AgentPrefix))

\* A fallback that takes the last agent collection of the listing.
AgentFallbackLast ==
    IF AgentCollections # <<>> THEN AgentCollections[Len(AgentCollections)]
    ELSE AgentPrefix \o "general"

\* add_to_agent_memory, lines 601-605: the first agent collection of the listing,
\* or agent_specific_memory_default.
AgentFallback ==
    IF AgentCollections # <<>> THEN AgentCollections[1]
    ELSE DefaultAgentCollection

\* add_to_agent_memory, lines 589-592: client.get_collection(collection_name) did
\* not raise.
AgentCheckPasses(agent_id, fault) ==
    Exists(AgentCollectionName(TargetAgentId(agent_id))) /\ fault # "get_collection"

\* add_to_agent_memory, lines 586-605: the collection the record is written to.
AgentTarget(agent_id, fault) ==
    IF AgentCheckPasses(agent_id, fault)
    THEN AgentCollectionName(TargetAgentId(agent_id))
    ELSE AgentFallback

\* add_to_agent_memory, lines 608-612, and _add_memory_sync, lines 801-807: the
\* payload; metadata.update puts content, timestamp and added_by over the metadata.
LegacyAgentPayload(content, agent_id) ==
    [content |-> content, timestamp |-> "now", added_by |-> current_user] @@
    [agent_id |-> TargetAgentId(agent_id),
     memory_type |-> "general",
     legacy_source |-> "add_to_agent_memory"]

\* The outcome of add_to_agent_memory: "" is success.  An exception of
\* get_collections ends the call; one of the embedding or the upsert (also an
\* upsert into a collection that does not exist) makes _add_memory_sync fail.
AddToAgentMemoryError(agent_id, fault) ==
    IF ~EnsureInitialized THEN "NotInitialized"
    ELSE IF ~AgentCheckPasses(agent_id, fault) /\ fault = "get_collections"
        THEN "Exception"
    ELSE IF fault = "upsert" \/ ~Exists(AgentTarget(agent_id, fault))
        THEN "Exception"
    ELSE ""

\* Whether add_to_agent_memory gets as far as calling _add_memory_sync.
AgentReachesAdd(agent_id, fault) ==
    /\ EnsureInitialized
    /\ AgentCheckPasses(agent_id, fault) \/ fault # "get_collections"

\* add_to_agent_memory(content, agent_id)
AddToAgentMemory(agentIds) ==
    \E content \in Contents, agent_id \in agentIds, fault \in AgentFaults :
        /\ IF AddToAgentMemoryError(agent_id, fault) = ""
           THEN /\ mutations < MaxMutations
                /\ points' = [points EXCEPT ![AgentTarget(agent_id, fault)] =
                       Upsert(@, [id |-> GenerateContentHash(content),
                                  payload |-> LegacyAgentPayload(content, agent_id)])]
                /\ mutations' = mutations + 1
                /\ UNCHANGED <<collections, registry>>
           ELSE UNCHANGED storeVars
        /\ last' = [Call("add_to_agent_memory", agent_id, content, FALSE,
                         AddToAgentMemoryError(agent_id, fault) = "",
                         AddToAgentMemoryError(agent_id, fault),
                         IF AgentReachesAdd(agent_id, fault)
                         THEN AgentTarget(agent_id, fault) ELSE "")
                      EXCEPT !.payload =
                          IF AgentReachesAdd(agent_id, fault)
                          THEN LegacyAgentPayload(content, agent_id) ELSE <<>>]
        /\ UNCHANGED <<svcVars, current_user, retry, serverVars>>

----------------------------------------------------------------------------
(* SystemAndCollectionsHandlers; "" is a missing argument *)

\* handle_create_collection: the result of create_collection is not looked at.
HandleCreateCollection(names) ==
    \E collection_name \in names \cup {""}, fault \in BOOLEAN :
        IF collection_name = ""
        THEN /\ last' = Call("handle_create_collection", collection_name, "",
                             FALSE, FALSE, "ValidationError", "")
             /\ UNCHANGED <<svcVars, current_user, storeVars, retry, serverVars>>
        ELSE /\ CreateCollectionEffect(collection_name, <<>>, fault)
             /\ last' = Call("handle_create_collection", collection_name, "",
                             FALSE, TRUE, "", "")
             /\ UNCHANGED <<svcVars, current_user, retry, serverVars>>

\* A handler that checks the name but not the confirmation.
HandleDeleteCollectionNoConfirmCheck(collection_name, confirm) ==
    IF collection_name = "" THEN "ValidationError" ELSE ""

\* handle_delete_collection, lines 395-418: the checks before the service is
\* called; "" lets the call through.
HandleDeleteCollectionError(collection_name, confirm) ==
    IF collection_name = "" THEN "ValidationError"
    ELSE IF ~confirm THEN "ConfirmationRequired"
    ELSE ""

\* handle_delete_collection: the service is called without confirm, and its result
\* is not looked at.
HandleDeleteCollection(names) ==
    \E collection_name \in names \cup {""}, confirm \in BOOLEAN :
        IF HandleDeleteCollectionError(collection_name, confirm) # ""
        THEN /\ last' = Call("handle_delete_collection", collection_name, "",
                             confirm, FALSE,
                             HandleDeleteCollectionError(collection_name, confirm), "")
             /\ UNCHANGED <<svcVars, current_user, storeVars, retry, serverVars>>
        ELSE /\ DeleteCollectionEffect(collection_name, FALSE)
             /\ last' = Call("handle_delete_collection", collection_name, "",
                             confirm, TRUE, "", "")
             /\ UNCHANGED <<svcVars, current_user, retry, serverVars>>

\* handle_add_to_collection: GenericMemoryService has no add_to_collection, the
\* call raises AttributeError and the handler answers isError.
HandleAddToCollection(names) ==
    \E collection_name \in names \cup {""}, content \in Contents \cup {""} :
        /\ last' = Call("handle_add_to_collection", collection_name, content,
                        FALSE, FALSE,
                        IF collection_name = "" \/ content = ""
                        THEN "ValidationError" ELSE "Exception", "")
        /\ UNCHANGED <<svcVars, current_user, storeVars, retry, serverVars>>

----------------------------------------------------------------------------
(* The other public operations of GenericMemoryService *)

\* dict.get(key, default)
GetOr(d, key, default) == IF key \in DOMAIN d THEN d[key] ELSE default

\* list_collections(): the collection manager lists what it has registered.
ListCollections ==
    /\ last' = IF ~EnsureInitialized
               THEN Call("list_collections", "", "", FALSE, FALSE,
                         "NotInitialized", "")
               ELSE [Call("list_collections", "", "", FALSE, TRUE, "", "")
                       EXCEPT !.payload = [collections |-> DOMAIN registry,
                                           total_count |->
                                               Cardinality(DOMAIN registry)]]
    /\ UNCHANGED <<svcVars, current_user, storeVars, retry, serverVars>>

\* The outcome of get_collection and of update_collection: "" is success.
RegistryLookupError(name) ==
    IF ~EnsureInitialized THEN "NotInitialized"
    ELSE IF ~Registered(name) THEN "NotFound"
    ELSE ""

\* get_collection(name)
GetCollection(names) ==
    \E name \in names :
        /\ last' = [Call("get_collection", name, "", FALSE,
                         RegistryLookupError(name) = "",
                         RegistryLookupError(name), "")
                      EXCEPT !.payload = IF RegistryLookupError(name) = ""
                                         THEN registry[name] ELSE <<>>]
        /\ UNCHANGED <<svcVars, current_user, storeVars, retry, serverVars>>

\* update_collection(name, description): the registry entry gets the description.
UpdateCollection(names) ==
    \E name \in names :
        /\ registry' = IF RegistryLookupError(name) = ""
                       THEN [registry EXCEPT ![name] =
                                [description |-> "updated"] @@ @]
                       ELSE registry
        /\ last' = Call("update_collection", name, "", FALSE,
                        RegistryLookupError(name) = "",
                        RegistryLookupError(name), "")
        /\ UNCHANGED <<svcVars, current_user, collections, points, mutations,
                       retry, serverVars>>

\* The outcome of get_memory: "" is success.  client.retrieve raises for a
\* collection that does not exist.
GetMemoryError(memory_id, collection, fault) ==
    IF ~EnsureInitialized THEN "NotInitialized"
    ELSE IF fault \/ ~Exists(collection) THEN "Exception"
    ELSE IF \A p \in points[collection] : p.id # memory_id THEN "NotFound"
    ELSE ""

\* get_memory(memory_id, collection); the memory_id is the id of some content.
GetMemory(names) ==
    \E collection \in names, content \in Contents, fault \in BOOLEAN :
        LET memory_id == GenerateContentHash(content)
            error == GetMemoryError(memory_id, collection, fault)
        IN /\ last' = [Call("get_memory", collection, content, FALSE,
                            error = "", error, collection)
                         EXCEPT !.payload =
                             IF error = ""
                             THEN (CHOOSE p \in points[collection] :
                                      p.id = memory_id).payload
                             ELSE <<>>]
           /\ UNCHANGED <<svcVars, current_user, storeVars, retry, serverVars>>

\* The outcome of get_collection_stats: "" is success.
GetCollectionStatsError(collection, fault) ==
    IF ~EnsureInitialized THEN "NotInitialized"
    ELSE IF ~Registered(collection) THEN "NotFound"
    ELSE IF fault \/ ~Exists(collection) THEN "Exception"
    ELSE ""

\* get_collection_stats(collection)
GetCollectionStats(names) ==
    \E collection \in names, fault \in BOOLEAN :
        LET error == GetCollectionStatsError(collection, fault)
        IN /\ last' = [Call("get_collection_stats", collection, "", FALSE,
                            error = "", error, "")
                         EXCEPT !.payload =
                             IF error = ""
                             THEN [total_memories |->
                                       Cardinality(points[collection]),
                                   total_contributors |->
                                       Cardinality({GetOr(q.payload, "added_by",
                                                          "unknown") :
                                                      q \in points[collection]}),
                                   metadata |-> registry[collection]]
                             ELSE <<>>]
           /\ UNCHANGED <<svcVars, current_user, storeVars, retry, serverVars>>

\* _add_memory_sync, lines 801-807: metadata.update puts content, timestamp and
\* added_by over the metadata of the caller.
LegacyPayload(content, metadata) ==
    [content |-> content, timestamp |-> "now", added_by |-> current_user] @@
    metadata

\* The outcome of add_to_global_memory and add_to_learned_memory: "" is
\* success.  The upsert raises for a collection that does not exist.
LegacyAddError(collection_name, fault) ==
    IF ~EnsureInitialized THEN "NotInitialized"
    ELSE IF fault \/ ~Exists(collection_name) THEN "Exception"
    ELSE ""

\* A legacy add: _add_memory_sync(collection_name, content, metadata) behind the
\* test of _ensure_initialized.
LegacyAdd(op, collection_name, metadata) ==
    \E content \in {"a"}, fault \in BOOLEAN :
        LET error == LegacyAddError(collection_name, fault)
        IN /\ IF error = ""
              THEN /\ mutations < MaxMutations
                   /\ points' = [points EXCEPT ![collection_name] =
                          Upsert(@, [id |-> GenerateContentHash(content),
                                     payload |-> LegacyPayload(content, metadata)])]
                   /\ mutations' = mutations + 1
                   /\ UNCHANGED <<collections, registry>>
              ELSE UNCHANGED storeVars
           /\ last' = [Call(op, "", content, FALSE, error = "", error,
                            IF EnsureInitialized THEN collection_name ELSE "")
                         EXCEPT !.payload = IF EnsureInitialized
                                            THEN LegacyPayload(content, metadata)
                                            ELSE <<>>]
           /\ UNCHANGED <<svcVars, current_user, retry, serverVars>>

\* add_to_global_memory(content), with the default category and importance (0.5)
AddToGlobalMemory ==
    LegacyAdd("add_to_global_memory", LegacyCollections.global,
              [category |-> "general", importance |-> 50,
               memory_type |-> "global",
               legacy_source |-> "add_to_global_memory"])

\* add_to_learned_memory(content), with the default pattern type and
\* confidence (0.7)
AddToLearnedMemory ==
    LegacyAdd("add_to_learned_memory", LegacyCollections.learned,
              [pattern_type |-> "insight", confidence |-> 70,
               memory_type |-> "learned",
               legacy_source |-> "add_to_learned_memory"])

\* memory_types arguments of query_memory; the first is the default (None).
MemoryTypeLists ==
    {<<"global", "learned", "agent">>, <<"global">>, <<"agent">>, <<"other">>}

\* query_memory, lines 650-666: the collections of the memory types.
RECURSIVE QueryCollections(_)
QueryCollections(memory_types) ==
    IF memory_types = <<>> THEN <<>>
    ELSE (IF Head(memory_types) = "global" THEN <<"global_memory">>
          ELSE IF Head(memory_types) = "learned" THEN <<"learned_memory">>
          ELSE IF Head(memory_types) = "agent" THEN AgentCollections
          ELSE <<>>) \o QueryCollections(Tail(memory_types))

\* _search_memory_sync, lines 837-858: the entries the collections of a list
\* may contribute together, in the order of the list.
RECURSIVE SearchAnswers(_, _, _, _, _)
SearchAnswers(collection_names, query, limit, min_score, faults) ==
    IF collection_names = <<>> THEN {<<>>}
    ELSE {first \o rest :
             first \in CollectionResults(Head(collection_names), query, limit,
                                         min_score, faults, TRUE),
             rest \in SearchAnswers(Tail(collection_names), query, limit,
                                    min_score, faults)}

\* query_memory, lines 687-695: the memory type put on a result.
MemoryTypeOf(collection_name) ==
    IF collection_name = "global_memory" THEN "global"
    ELSE IF collection_name = "learned_memory" THEN "learned"
    ELSE IF StartsWith(collection_name, AgentPrefix) THEN "agent"
    ELSE "unknown"

\* The outcome of query_memory: "" is success.  get_collections is called for
\* the memory type agent only.
QueryMemoryError(memory_types, fault) ==
    IF ~EnsureInitialized THEN "NotInitialized"
    ELSE IF fault /\ "agent" \in Range(memory_types) THEN "Exception"
    ELSE IF QueryCollections(memory_types) = <<>> THEN "NoValidCollections"
    ELSE ""

\* query_memory(query, memory_types, limit, min_score), with the default
\* min_score (0.3)
QueryMemory ==
    \E query \in {"a"}, memory_types \in MemoryTypeLists, limit \in Limits,
       fault \in BOOLEAN, faults \in SUBSET {LegacyCollections.global} :
        LET error == QueryMemoryError(memory_types, fault)
        IN /\ IF error # ""
              THEN last' = Call("query_memory", "", query, FALSE, FALSE, error, "")
              ELSE \E answer \in SearchAnswers(QueryCollections(memory_types),
                                               query, limit, 30, faults) :
                     LET all_results == SortByScore(answer)
                         results == Truncate(all_results, limit)
                     IN last' = [Call("query_memory", "", query, FALSE, TRUE, "", "")
                                   EXCEPT !.searched = QueryCollections(memory_types),
                                          !.limit = limit,
                                          !.min_score = 30,
                                          !.results =
                                              [i \in 1..Len(results) |->
                                                  [memory_type |->
                                                      MemoryTypeOf(results[i].collection)]
                                                  @@ results[i]],
                                          !.total_results = Len(all_results)]
           /\ UNCHANGED <<svcVars, current_user, storeVars, retry, serverVars>>

\* compare_against_learned_memory(situation, comparison_type, limit): a search
\* of learned_memory with min_score 0.3, answered as patterns.
CompareAgainstLearnedMemory ==
    \E situation \in {"a"}, limit \in Limits,
       faults \in SUBSET {LegacyCollections.learned} :
        /\ IF ~EnsureInitialized
           THEN last' = Call("compare_against_learned_memory", "", situation,
                             FALSE, FALSE, "NotInitialized", "")
           ELSE \E answer \in SearchAnswers(<<"learned_memory">>, situation, limit,
                                            30, faults) :
                  LET results == Truncate(SortByScore(answer), limit)
                  IN last' = [Call("compare_against_learned_memory", "", situation,
                                   FALSE, TRUE, "", "")
                                EXCEPT !.searched = <<"learned_memory">>,
                                       !.limit = limit,
                                       !.min_score = 30,
                                       !.results =
                                           [i \in 1..Len(results) |->
                                               [content |-> results[i].payload.content,
                                                similarity_score |-> results[i].score,
                                                pattern_type |->
                                                    GetOr(results[i].payload,
                                                          "pattern_type", "insight"),
                                                confidence |->
                                                    GetOr(results[i].payload,
                                                          "confidence", 70)]],
                                       !.total_results = Len(results)]
        /\ UNCHANGED <<svcVars, current_user, storeVars, retry, serverVars>>

----------------------------------------------------------------------------
(* The record operations: create, add, delete *)

Next ==
    \/ Initialize
    \/ SetUserContext
    \/ CreateCollection(CoreNames)
    \/ AddMemory(CoreNames)
    \/ DeleteMemory(CoreNames)

Spec == Init /\ [][Next]_vars

----------------------------------------------------------------------------
(* The legacy agent routing *)

AgentInit ==
    /\ retry = RetryIdle
    /\ ServerIdle
    /\ InitWith({<<>>,
                 <<"notes", AgentCollectionName("7")>>,
                 <<AgentCollectionName("7"), DefaultAgentCollection>>,
                 <<DefaultAgentCollection, AgentCollectionName("7")>>,
                 <<AgentCollectionName("7"), AgentCollectionName("42")>>}, {})

AgentNext ==
    \/ Initialize
    \/ AddToAgentMemory(AgentIds)

AgentSpec == AgentInit /\ [][AgentNext]_vars

----------------------------------------------------------------------------
(* The collection tools *)

ToolNames == CoreNames

ToolNext ==
    \/ Initialize
    \/ AddMemory(ToolNames)
    \/ DeleteCollection(ToolNames)
    \/ HandleCreateCollection(ToolNames)
    \/ HandleDeleteCollection(ToolNames)
    \/ HandleAddToCollection(ToolNames)

ToolSpec == Init /\ [][ToolNext]_vars

----------------------------------------------------------------------------
(* Search over one or two collections *)

\* A record as add_memory stores it for user "system" without metadata or tags.
StoredPoint(collection, content) ==
    [id |-> GenerateContentHash(content),
     payload |-> FullMetadata(collection, content, <<>>, <<>>)]

\* The store is empty, or holds two registered collections with the records of
\* earlier runs.
SearchInit ==
    /\ initialized = FALSE
    /\ client = FALSE
    /\ collection_manager = FALSE
    /\ embedding_model = FALSE
    /\ current_user = "system"
    /\ collections \in {<<>>, <<"notes", AgentCollectionName("7")>>}
    /\ registry = [n \in Range(collections) |-> SystemEntry]
    /\ points = [n \in Names |->
          IF n \notin Range(collections) THEN {}
          ELSE IF n = "notes"
          THEN {StoredPoint(n, "a"), StoredPoint(n, "b")}
          ELSE {StoredPoint(n, "a"), StoredPoint(n, "buy milk")}]
    /\ mutations = 0
    /\ last = NoCall
    /\ retry = RetryIdle
    /\ ServerIdle

SearchNext ==
    \/ Initialize
    \/ SetUserContext
    \/ CreateCollection({"notes"})
    \/ AddMemoryOf({"notes"}, SearchContents, {[metadata |-> <<>>, tags |-> <<>>]})
    \/ SearchMemory(FALSE)
    \/ SearchMemory(TRUE)

SearchSpec == SearchInit /\ [][SearchNext]_vars

----------------------------------------------------------------------------
(* Every public operation, on a service at any stage of its initialization *)

\* The store is empty, or holds the collections of earlier runs, one record in
\* each of notes and learned_memory; the collection manager knows notes.
PublicInit ==
    /\ initialized = FALSE
    /\ client = FALSE
    /\ collection_manager = FALSE
    /\ embedding_model = FALSE
    /\ current_user = "system"
    /\ collections \in {<<>>, <<"notes", LegacyCollections.global,
                                LegacyCollections.learned,
                                AgentCollectionName("7")>>}
    /\ registry = [n \in Range(collections) \cap {"notes"} |-> SystemEntry]
    /\ points = [n \in Names |->
          IF n \in Range(collections) \cap {"notes", LegacyCollections.learned}
          THEN {StoredPoint(n, "a")} ELSE {}]
    /\ mutations = 0
    /\ last = NoCall
    /\ retry = RetryIdle
    /\ ServerIdle

PublicNext ==
    \/ Initialize
    \/ CreateCollection({"notes"})
    \/ ListCollections
    \/ GetCollection({"notes"})
    \/ UpdateCollection({"notes"})
    \/ DeleteCollection({"notes"})
    \/ AddMemoryOf({"notes"}, {"b"}, {[metadata |-> <<>>, tags |-> <<>>]})
    \/ SearchMemory(FALSE)
    \/ GetMemory({"notes"})
    \/ DeleteMemory({"notes"})
    \/ GetCollectionStats({"notes"})
    \/ AddToGlobalMemory
    \/ AddToLearnedMemory
    \/ AddToAgentMemory({"7"})
    \/ QueryMemory
    \/ CompareAgainstLearnedMemory

PublicSpec == PublicInit /\ [][PublicNext]_vars

----------------------------------------------------------------------------
(* MemoryMCPServer (src/src/mcp_server.py).  PromptHandlers and ResourceHandlers *)
(* are outside the sources at hand: a call of one of them is an input, which     *)
(* returns some result dict or raises.                                          *)

ServerModes == {"full", "tools-only", "prompts-only"}

PromptNames == {"guide", "policy"}

\* dict.get(key) or "": a missing key and an empty string are both falsy.
Field(d, key) == IF key \in DOMAIN d THEN d[key] ELSE ""

\* a or b, on strings
OrElse(a, b) == IF a # "" THEN a ELSE b

\* str.strip() for strings padded with spaces
RECURSIVE Strip(_)
Strip(str) ==
    IF Len(str) > 0 /\ SubSeq(str, 1, 1) = " " THEN Strip(SubSeq(str, 2, Len(str)))
    ELSE IF Len(str) > 0 /\ SubSeq(str, Len(str), Len(str)) = " "
        THEN Strip(SubSeq(str, 1, Len(str) - 1))
    ELSE str

\* "\n\n".join(text_parts)
RECURSIVE Join(_)
Join(parts) ==
    IF parts = <<>> THEN ""
    ELSE IF Len(parts) = 1 THEN parts[1]
    ELSE parts[1] \o "\n\n" \o Join(Tail(parts))

\* What a call of the prompt handler (get_prompt) or of the resource handler
\* (read_resource) can do: raise, or return a dict, or return None (the result
\* with the field none), on which result.get raises.  A "prompt" value is a
\* dict unless it has the field str; a "content" value is a string (str), a
\* list of blocks (list) or something else; a "data" value is a dict of counts
\* or holds an object (unserializable) that json.dumps raises on.
HandlerRaises == [raises |-> TRUE, result |-> <<>>]
Returns(result) == [raises |-> FALSE, result |-> result]

\* Whether the handling of what the handler did raises inside the try block:
\* the handler raised, or it returned None.
RaisesInTry(outcome) == outcome.raises \/ "none" \in DOMAIN outcome.result

PromptOutcomes ==
    {HandlerRaises,
     Returns([status |-> "error", message |-> "no such prompt"]),
     Returns([status |-> "error"]),
     Returns([status |-> "success",
              prompt |-> [name |-> "Guide", content |-> " use tags "]]),
     Returns([status |-> "success", prompt |-> [str |-> "plain"],
              content |-> [str |-> ""], description |-> "described"]),
     Returns([status |-> "success",
              content |-> [list |-> <<[type |-> "text", text |-> "one "],
                                      [type |-> "image", text |-> "png"],
                                      [type |-> "text", text |-> " "],
                                      [type |-> "text", text |-> "two"]>>],
              metadata |-> [prompt_type |-> "reference"]]),
     Returns([status |-> "success", content |-> [other |-> 0]]),
     Returns([none |-> TRUE])}

ResourceOutcomes ==
    {HandlerRaises,
     Returns([status |-> "error", message |-> "unknown resource"]),
     Returns([status |-> "error"]),
     Returns([status |-> "success", data |-> [count |-> 1]]),
     Returns([status |-> "success", data |-> [unserializable |-> TRUE]]),
     Returns([status |-> "success"]),
     Returns([none |-> TRUE])}

ResourceUris == {"memory://collections", "memory://health"}

\* __init__(server_mode): the memory manager is there or not (the import or the
\* constructor failed); the prompt handlers exist in the modes full and
\* prompts-only.
McpConstructed(server_mode, memory_available) ==
    [server_mode |-> server_mode,
     memory_manager |-> memory_available,
     prompt_handlers |-> server_mode \in {"full", "prompts-only"},
     op |-> "", name |-> "", invoked |-> FALSE, response |-> <<>>]

\* An answer of the server to one call.
McpAnswer(op, name, invoked, response) ==
    [mcp EXCEPT !.op = op, !.name = name, !.invoked = invoked,
                !.response = response]

\* {"error": {"code": code, "message": message}}
ErrorResponse(code, message) == [error |-> [code |-> code, message |-> message]]

\* get_available_prompts: whether the list of the prompt handlers is asked for.
PromptsAvailable ==
    ~(mcp.server_mode = "tools-only" \/ ~mcp.memory_manager \/ ~mcp.prompt_handlers)

\* get_available_prompts()
GetAvailablePrompts ==
    /\ mcp.server_mode # ""
    /\ mcp' = McpAnswer("get_available_prompts", "", PromptsAvailable,
                        [prompts |-> IF PromptsAvailable
                                     THEN <<"guide", "policy">> ELSE <<>>])
    /\ UNCHANGED <<svcVars, current_user, storeVars, last, retry, protocol, tasks, hostVars>>

\* handle_prompt_get, lines 160-164: the dict under "prompt", or {}.
PromptData(result) ==
    IF "prompt" \in DOMAIN result /\ "str" \notin DOMAIN result.prompt
    THEN result.prompt ELSE <<>>

\* handle_prompt_get, lines 165-170
PromptDescription(name, result) ==
    OrElse(Field(result, "description"),
      OrElse(Field(PromptData(result), "name"),
        OrElse(IF "metadata" \in DOMAIN result
               THEN Field(result.metadata, "prompt_type") ELSE "",
               name)))

\* handle_prompt_get, lines 183-189: the stripped texts of the text blocks that
\* are not empty.
RECURSIVE TextParts(_)
TextParts(blocks) ==
    IF blocks = <<>> THEN <<>>
    ELSE (IF Head(blocks).type = "text" /\ Strip(Head(blocks).text) # ""
          THEN <<Strip(Head(blocks).text)>> ELSE <<>>) \o TextParts(Tail(blocks))

\* handle_prompt_get, lines 172-192
GuidanceText(result) ==
    LET text ==
          IF DOMAIN PromptData(result) # {}
          THEN Strip(Field(PromptData(result), "content"))
          ELSE IF "content" \notin DOMAIN result THEN ""
          ELSE IF "str" \in DOMAIN result.content THEN Strip(result.content.str)
          ELSE IF "list" \in DOMAIN result.content
              THEN Join(TextParts(result.content.list))
          ELSE ""
    IN OrElse(text, "No reference content available for this prompt.")

\* A server that answers every unavailable prompt as an internal failure.
PromptGetResponseAsInternal(name, outcome) ==
    ErrorResponse(-32603, "Prompts not available in tools-only mode")

\* handle_prompt_get, lines 143-216: the response for a prompt name and what the
\* prompt handler does when it is called.
PromptGetResponse(name, outcome) ==
    IF mcp.server_mode = "tools-only" \/ ~mcp.prompt_handlers
    THEN ErrorResponse(-32601, "Prompts not available in tools-only mode")
    ELSE IF RaisesInTry(outcome)
        THEN ErrorResponse(-32603, "Failed to get prompt: raised")
    ELSE IF Field(outcome.result, "status") = "error"
        THEN ErrorResponse(-32603, IF "message" \in DOMAIN outcome.result
                                   THEN outcome.result.message
                                   ELSE "Prompt get failed")
    ELSE [description |-> PromptDescription(name, outcome.result),
          messages |-> <<[role |-> "assistant",
                          content |-> [type |-> "text",
                                       text |-> "Here is the " \o name \o
                                                " reference guide:\n\n" \o
                                                GuidanceText(outcome.result) \o
                                                "\n\n---\nThis is reference information only."]]>>]

\* handle_prompt_get(name, arguments)
HandlePromptGet ==
    /\ mcp.server_mode # ""
    /\ \E name \in PromptNames, outcome \in PromptOutcomes :
          mcp' = McpAnswer("handle_prompt_get", name,
                           ~(mcp.server_mode = "tools-only" \/ ~mcp.prompt_handlers),
                           PromptGetResponse(name, outcome))
    /\ UNCHANGED <<svcVars, current_user, storeVars, last, retry, protocol, tasks, hostVars>>

\* json.dumps(resource_data, indent=2, ensure_ascii=False) for a dict of counts
JsonDumps(data) ==
    IF "count" \in DOMAIN data
    THEN "{\n  \"count\": " \o ToString(data.count) \o "\n}"
    ELSE "{}"

\* A handle_resource_read whose except clause does not cover the handling of
\* the result: an exception there reaches the caller.
ResourceReadResponseUnguarded(uri, outcome) ==
    IF outcome.raises
    THEN ErrorResponse(-32603, "Failed to read resource: raised")
    ELSE [raised |-> TRUE]

\* handle_resource_read, lines 95-127: the response for a uri and what the
\* resource handler does.
ResourceReadResponse(uri, outcome) ==
    IF RaisesInTry(outcome)
    THEN ErrorResponse(-32603, "Failed to read resource: raised")
    ELSE IF Field(outcome.result, "status") = "error"
        THEN ErrorResponse(-32603, IF "message" \in DOMAIN outcome.result
                                   THEN outcome.result.message
                                   ELSE "Resource read failed")
    ELSE IF "data" \in DOMAIN outcome.result
            /\ "unserializable" \in DOMAIN outcome.result.data
        THEN ErrorResponse(-32603, "Failed to read resource: raised")
    ELSE [contents |-> <<[uri |-> uri,
                          mimeType |-> "application/json",
                          text |-> JsonDumps(IF "data" \in DOMAIN outcome.result
                                             THEN outcome.result.data
                                             ELSE <<>>)]>>]

\* handle_resource_read(uri, params)
HandleResourceRead ==
    /\ mcp.server_mode # ""
    /\ \E uri \in ResourceUris, outcome \in ResourceOutcomes :
          mcp' = McpAnswer("handle_resource_read", uri, TRUE,
                           ResourceReadResponse(uri, outcome))
    /\ UNCHANGED <<svcVars, current_user, storeVars, last, retry, protocol, tasks, hostVars>>

\* The server is constructed in one of its modes, with or without a memory manager.
McpInit ==
    /\ InitWith({<<>>}, {})
    /\ retry = RetryIdle
    /\ protocol = ProtocolIdle
    /\ tasks = NoTasks
    /\ HostIdle
    /\ mcp \in {McpConstructed(server_mode, memory_available) :
                   server_mode \in ServerModes, memory_available \in BOOLEAN}

McpNext ==
    \/ GetAvailablePrompts
    \/ HandlePromptGet
    \/ HandleResourceRead

McpSpec == McpInit /\ [][McpNext]_vars

----------------------------------------------------------------------------
(* The protocol loop (MCPProtocolHandler.run_protocol_loop, started by          *)
(* run_mcp_server), modelled from the written specification, sections 4.1 and 5 *)

\* What an input line can be: not JSON at all, an envelope without a method, or
\* a request with one of the methods.
Methods == {"initialize", "tools/list", "tools/call", "shutdown"}
LineKinds == {"invalid_json", "no_method"} \cup Methods

\* A response that carries the number of the line read last as its id.
ResponseWithLatestId(n, id, kind, what) ==
    [line |-> n, id |-> Len(protocol.lines), kind |-> kind, what |-> what]

\* A response envelope for line n: {id, result} or {id, error}; id 0 is null.
Response(n, id, kind, what) == [line |-> n, id |-> id, kind |-> kind, what |-> what]

\* The chunks a response is written in: its body and the closing newline.
Chunk(response, part) == [line |-> response.line, id |-> response.id, part |-> part]

\* A loop that dispatches whatever the session state is.
ImmediateNoSessionCheck(n, kind) ==
    IF kind = "invalid_json" THEN Response(n, 0, "error", "parse_error")
    ELSE IF kind = "no_method" THEN Response(n, n, "error", "parse_error")
    ELSE IF kind = "initialize" THEN Response(n, n, "result", "capabilities")
    ELSE IF kind = "tools/call" THEN <<>>
    ELSE Response(n, n, "result", kind)

\* The response the loop gives at once to line n of a kind, <<>> when the line is
\* dispatched as a task.
Immediate(n, kind) ==
    IF kind = "invalid_json" THEN Response(n, 0, "error", "parse_error")
    ELSE IF kind = "no_method" THEN Response(n, n, "error", "parse_error")
    ELSE IF kind = "initialize" THEN Response(n, n, "result", "capabilities")
    ELSE IF protocol.session = "UNINITIALIZED"
        THEN Response(n, n, "error", "not_initialized")
    ELSE IF kind = "tools/call" THEN <<>>
    ELSE Response(n, n, "result", kind)

\* A loop that stops at a line it cannot parse.
SessionAfterStopOnMalformed(kind) ==
    IF kind \in {"invalid_json", "no_method"} THEN "SHUTTING_DOWN"
    ELSE IF protocol.session = "UNINITIALIZED" /\ kind = "initialize" THEN "READY"
    ELSE IF protocol.session = "READY" /\ kind = "shutdown" THEN "SHUTTING_DOWN"
    ELSE protocol.session

\* The session state after a line of a kind.
SessionAfter(kind) ==
    IF protocol.session = "UNINITIALIZED" /\ kind = "initialize" THEN "READY"
    ELSE IF protocol.session = "READY" /\ kind = "shutdown" THEN "SHUTTING_DOWN"
    ELSE protocol.session

\* The loop reads one line and answers it or dispatches it; it does not wait for
\* the tasks in flight.  After shutdown no line is read.
ReadLine ==
    /\ protocol.session \in {"UNINITIALIZED", "READY"}
    /\ Len(protocol.lines) < MaxLines
    /\ \E kind \in LineKinds :
          LET n == Len(protocol.lines) + 1
          IN protocol' = [protocol EXCEPT
                !.lines = Append(@, kind),
                !.session = SessionAfter(kind),
                !.in_flight = IF Immediate(n, kind) = <<>> THEN @ \cup {n} ELSE @,
                !.ready = IF Immediate(n, kind) = <<>> THEN @
                          ELSE @ \cup {Immediate(n, kind)},
                !.at_shutdown = IF SessionAfter(kind) = "SHUTTING_DOWN"
                                THEN protocol.in_flight ELSE @]
    /\ UNCHANGED <<svcVars, current_user, storeVars, last, retry, mcp, tasks, hostVars>>

\* A task in flight completes, with a result or with a failure rendered as
\* isError; its response waits to be written.  Tasks complete in any order.
TaskComplete ==
    /\ ~protocol.exited
    /\ \E n \in protocol.in_flight, what \in {"content", "isError"} :
          protocol' = [protocol EXCEPT
                !.in_flight = @ \ {n},
                !.ready = @ \cup {Response(n, n, "result", what)}]
    /\ UNCHANGED <<svcVars, current_user, storeVars, last, retry, mcp, tasks, hostVars>>

\* A writer that starts a response while another one is half written.
MayStartWriteAnytime(response) == response \in protocol.ready

\* Whether the writing of a response may start: no other response is half
\* written.
MayStartWrite(response) ==
    response \in protocol.ready /\ protocol.writing = <<>>

\* The body of a response is written to the output stream.
WriteBegin ==
    /\ ~protocol.exited
    /\ \E response \in protocol.ready :
          /\ MayStartWrite(response)
          /\ protocol' = [protocol EXCEPT
                !.ready = @ \ {response},
                !.writing = response,
                !.output = Append(@, Chunk(response, "body"))]
    /\ UNCHANGED <<svcVars, current_user, storeVars, last, retry, mcp, tasks, hostVars>>

\* The response that is being written is closed and flushed.
WriteEnd ==
    /\ ~protocol.exited
    /\ protocol.writing # <<>>
    /\ protocol' = [protocol EXCEPT
          !.writing = <<>>,
          !.output = Append(@, Chunk(protocol.writing, "newline"))]
    /\ UNCHANGED <<svcVars, current_user, storeVars, last, retry, mcp, tasks, hostVars>>

\* A shutdown that does not wait for the tasks in flight.
MayExitAtOnce == protocol.session = "SHUTTING_DOWN"

\* Whether the process may exit: shutdown was received, no task is in flight and
\* every response is written.
MayExit ==
    /\ protocol.session = "SHUTTING_DOWN"
    /\ protocol.in_flight = {}
    /\ protocol.ready = {}
    /\ protocol.writing = <<>>

\* The process exits.
Exit ==
    /\ ~protocol.exited
    /\ MayExit
    /\ protocol' = [protocol EXCEPT !.exited = TRUE]
    /\ UNCHANGED <<svcVars, current_user, storeVars, last, retry, mcp, tasks, hostVars>>

\* run_mcp_server: the server is constructed and the loop starts UNINITIALIZED.
ProtocolInit ==
    /\ InitWith({<<>>}, {})
    /\ retry = RetryIdle
    /\ mcp = McpConstructed("full", TRUE)
    /\ tasks = NoTasks
    /\ HostIdle
    /\ protocol = [ProtocolIdle EXCEPT !.session = "UNINITIALIZED"]

ProtocolNext ==
    \/ ReadLine
    \/ TaskComplete
    \/ WriteBegin
    \/ WriteEnd
    \/ Exit

ProtocolSpec == ProtocolInit /\ [][ProtocolNext]_vars

\* The scheduler runs every task that can run: a task in flight completes, a
\* response that can be written is written, and the process exits when it may.
ProtocolLiveSpec ==
    /\ ProtocolSpec
    /\ WF_vars(TaskComplete)
    /\ WF_vars(WriteBegin)
    /\ WF_vars(WriteEnd)
    /\ WF_vars(Exit)

----------------------------------------------------------------------------
(* Two create_collection tool calls in flight at once.  A task is dispatched  *)
(* by the loop and runs later; handle_create_collection and the               *)
(* create_collection it awaits have no suspension point, so a task runs in    *)
(* one step, and the tasks run in either order.                               *)

TaskIds == {1, 2}

\* A task that has not been dispatched.
IdleTask == [pc |-> "idle", name |-> "", taken |-> FALSE, ready |-> FALSE,
             service_error |-> "", is_error |-> FALSE, text |-> ""]

\* A create_collection request is dispatched as a task.
DispatchCreate ==
    /\ \E t \in TaskIds, name \in CoreNames :
          /\ tasks[t].pc = "idle"
          /\ tasks' = [tasks EXCEPT ![t] = [IdleTask EXCEPT !.pc = "in_flight",
                                                             !.name = name]]
    /\ UNCHANGED <<svcVars, current_user, storeVars, last, retry, mcp, protocol, hostVars>>

\* The task runs handle_create_collection: the service is called, its result is
\* not looked at, and the response says success unless the call raised (it does
\* not: the service returns its failures).  The task records what it met:
\*   ready  whether the service was initialized
\*   taken  whether the name was taken
\*   service_error  what create_collection returned
RunCreate ==
    /\ \E t \in TaskIds, fault \in BOOLEAN :
          /\ tasks[t].pc = "in_flight"
          /\ CreateCollectionEffect(tasks[t].name, <<>>, fault)
          /\ tasks' = [tasks EXCEPT ![t] =
                [@ EXCEPT !.pc = "done",
                          !.ready = EnsureInitialized,
                          !.taken = Exists(tasks[t].name) \/ Registered(tasks[t].name),
                          !.service_error = CreateCollectionError(tasks[t].name, fault),
                          !.is_error = FALSE,
                          !.text = "Successfully created collection"]]
          /\ last' = Call("handle_create_collection", tasks[t].name, "",
                          FALSE, TRUE, "", "")
    /\ UNCHANGED <<svcVars, current_user, retry, mcp, protocol, hostVars>>

CreateRaceInit ==
    /\ InitWith({<<>>, <<"notes">>}, CoreNames)
    /\ retry = RetryIdle
    /\ mcp = McpIdle
    /\ protocol = ProtocolIdle
    /\ tasks = [t \in TaskIds |-> IdleTask]
    /\ HostIdle

CreateRaceNext ==
    \/ Initialize
    \/ AddMemory({"notes"})
    \/ DispatchCreate
    \/ RunCreate

CreateRaceSpec == CreateRaceInit /\ [][CreateRaceNext]_vars

----------------------------------------------------------------------------
(* The retry policy around an adapter call (written specification, section 4.4), *)
(* with the parameters of ErrorHandlingConfig.  Delays are in tenths of a second. *)

\* ErrorHandlingConfig.retry_attempts
retry_attempts == 3

\* ErrorHandlingConfig.base_delay (1.0 s)
base_delay == 10

\* ErrorHandlingConfig.max_delay (30.0 s)
max_delay == 300

\* ErrorHandlingConfig.exponential_base (2.0)
exponential_base == 2

\* The configurations explored: the defaults, fewer attempts, a max_delay of 1.5 s,
\* jitter on (the default) and off.
RetryConfigs ==
    {[retry_attempts |-> n, base_delay |-> base_delay, max_delay |-> m,
      exponential_base |-> exponential_base, jitter_enabled |-> j] :
        n \in 1..retry_attempts, m \in {max_delay, 15}, j \in BOOLEAN}

\* The jitter a delay may get: none when disabled.
Jitters(cfg) == IF cfg.jitter_enabled THEN 0..MaxJitter ELSE {0}

\* min(base_delay * exponential_base^attempt, max_delay) plus the jitter; attempt
\* counts the failed tries before this delay, from 0.
BackoffDelay(cfg, attempt, jitter) ==
    Min(cfg.base_delay * cfg.exponential_base ^ attempt, cfg.max_delay) + jitter

\* A classification under which every category is retried.
IsTransientEveryCategory(category) ==
    category \in {"connectivity", "storage", "validation", "permission"}

\* Whether a failure category is retried.
IsTransient(category) == category \in {"connectivity", "storage"}

\* The categories a failed try is classified into.
FailureCategories == {"connectivity", "storage", "validation", "permission"}

\* A wrapped adapter call starts under one of the configurations.
RetryCall ==
    /\ retry.status \in {"idle", "succeeded", "failed"}
    /\ \E cfg \in RetryConfigs :
          retry' = [status |-> "running", cfg |-> cfg, tries |-> 0,
                    delays |-> <<>>, category |-> ""]
    /\ UNCHANGED <<svcVars, current_user, storeVars, last, serverVars>>

\* One try of the call: it succeeds, or fails in some category.  A transient
\* failure is retried after a backoff delay while tries are left; any other
\* failure, and a transient one on the last try, is final.
RetryAttempt ==
    /\ retry.status = "running"
    /\ \/ retry' = [retry EXCEPT !.status = "succeeded", !.tries = @ + 1]
       \/ \E category \in FailureCategories, jitter \in Jitters(retry.cfg) :
             IF IsTransient(category) /\ retry.tries + 1 < retry.cfg.retry_attempts
             THEN retry' = [retry EXCEPT
                              !.status = "sleeping",
                              !.tries = @ + 1,
                              !.category = category,
                              !.delays = Append(@, BackoffDelay(retry.cfg,
                                                                retry.tries, jitter))]
             ELSE retry' = [retry EXCEPT !.status = "failed", !.tries = @ + 1,
                                         !.category = category]
    /\ UNCHANGED <<svcVars, current_user, storeVars, last, serverVars>>

\* The backoff delay has passed: the call is tried again.
RetryBackoff ==
    /\ retry.status = "sleeping"
    /\ retry' = [retry EXCEPT !.status = "running"]
    /\ UNCHANGED <<svcVars, current_user, storeVars, last, serverVars>>

RetryInit ==
    /\ InitWith({<<>>}, {})
    /\ retry = RetryIdle
    /\ ServerIdle

RetryNext ==
    \/ RetryCall
    \/ RetryAttempt
    \/ RetryBackoff

RetrySpec == RetryInit /\ [][RetryNext]_vars

----------------------------------------------------------------------------
(* The process-wide error counters (written specification, sections 4.4 and 5) *)
(* and handle_system_health, which reports them.  Wrapped adapter calls of     *)
(* several tool-call tasks are in flight at once; every event is recorded in   *)
(* one step.                                                                   *)

\* errors_by_category.get(category, 0)
CategoryCount(stats, category) ==
    IF category \in DOMAIN stats.errors_by_category
    THEN stats.errors_by_category[category] ELSE 0

\* A recording that leaves errors_by_category alone for the failures that are
\* not retried.
RecordErrorTransientOnly(stats, category) ==
    [stats EXCEPT !.total_errors = @ + 1,
                  !.errors_by_category =
                      IF IsTransient(category)
                      THEN (category :> CategoryCount(stats, category) + 1) @@ @
                      ELSE @]

\* A failure event of some category is recorded.
RecordError(stats, category) ==
    [stats EXCEPT !.total_errors = @ + 1,
                  !.errors_by_category =
                      (category :> CategoryCount(stats, category) + 1) @@ @]

\* A task that has no wrapped call in flight; failures is the task's own tally
\* of the failure events it has recorded.
NoWrappedCall == [pc |-> "idle", tries |-> 0, failures |-> 0]

\* The sum of the failure tallies of the tasks.
FailureEvents(ts) == ts[1].failures + ts[2].failures

\* A task starts a wrapped adapter call.
WrappedCallStart ==
    \E t \in TaskIds :
        /\ tasks[t].pc \in {"idle", "succeeded", "failed"}
        /\ tasks' = [tasks EXCEPT ![t].pc = "trying", ![t].tries = 0]
        /\ UNCHANGED <<svcVars, current_user, storeVars, last, retry, mcp, protocol,
                       hostVars>>

\* A try of a task's call fails: the event is recorded, and the call is retried
\* after a backoff when the category is transient and tries are left.
WrappedCallFails ==
    \E t \in TaskIds, category \in FailureCategories :
        /\ tasks[t].pc = "trying"
        /\ error_stats.total_errors < MaxErrors
        /\ error_stats' = RecordError(error_stats, category)
        /\ tasks' = [tasks EXCEPT
               ![t].pc = IF IsTransient(category)
                            /\ tasks[t].tries + 1 < retry_attempts
                         THEN "backoff" ELSE "failed",
               ![t].tries = @ + 1,
               ![t].failures = @ + 1]
        /\ UNCHANGED <<svcVars, current_user, storeVars, last, retry, mcp, protocol,
                       docker, launchers>>

\* The backoff of a task's call has passed: a recovery is attempted.
WrappedCallRetries ==
    \E t \in TaskIds :
        /\ tasks[t].pc = "backoff"
        /\ error_stats' = [error_stats EXCEPT !.recovery_attempts = @ + 1]
        /\ tasks' = [tasks EXCEPT ![t].pc = "trying"]
        /\ UNCHANGED <<svcVars, current_user, storeVars, last, retry, mcp, protocol,
                       docker, launchers>>

\* A try of a task's call succeeds; after a retry that is a successful recovery.
WrappedCallSucceeds ==
    \E t \in TaskIds :
        /\ tasks[t].pc = "trying"
        /\ error_stats' = [error_stats EXCEPT !.successful_recoveries =
                              IF tasks[t].tries > 0 THEN @ + 1 ELSE @]
        /\ tasks' = [tasks EXCEPT ![t].pc = "succeeded"]
        /\ UNCHANGED <<svcVars, current_user, storeVars, last, retry, mcp, protocol,
                       docker, launchers>>

\* An entry of health_info["components"]: a flag (markdown_processor) or a dict
\* with a status.
ComponentFlag(value) == [dict |-> FALSE, status |-> "", value |-> value]
ComponentStatus(status) == [dict |-> TRUE, status |-> status, value |-> FALSE]

\* handle_system_health, lines 52-92: the components of the report.  An
\* exception of get_collections puts qdrant in error and leaves the embedding
\* model unchecked.
HealthComponents(markdown_processor, fault) ==
    [markdown_processor |-> ComponentFlag(markdown_processor)] @@
    (IF ~mcp.memory_manager THEN <<>>
     ELSE IF client /\ fault THEN [qdrant |-> ComponentStatus("error")]
     ELSE [qdrant |-> ComponentStatus(IF client THEN "healthy" ELSE "unavailable"),
           embedding_model |-> ComponentStatus(IF embedding_model THEN "healthy"
                                               ELSE "unavailable")])

\* handle_system_health, lines 95-101: the components that have a status of
\* unavailable or error.
ComponentIssues(components) ==
    {c \in DOMAIN components :
        components[c].dict /\ components[c].status \in {"unavailable", "error"}}

\* handle_system_health, lines 103-116
OverallStatus(components) ==
    IF ComponentIssues(components) = {} THEN "healthy"
    ELSE IF Cardinality(ComponentIssues(components)) = Cardinality(DOMAIN components)
        THEN "critical"
    ELSE "degraded"

\* handle_system_health(arguments), of handlers constructed with or without a
\* markdown processor; the memory manager is the service, or None.
HandleSystemHealth ==
    \E markdown_processor \in BOOLEAN, fault \in BOOLEAN :
        /\ last' = [Call("handle_system_health", "", "", FALSE, TRUE, "", "")
                      EXCEPT !.payload =
                          [memory_manager |-> [available |-> mcp.memory_manager,
                                               initialized |-> FALSE],
                           error_statistics |-> error_stats,
                           components |-> HealthComponents(markdown_processor, fault),
                           overall_status |->
                               OverallStatus(HealthComponents(markdown_processor,
                                                              fault))]]
        /\ UNCHANGED <<svcVars, current_user, storeVars, retry, serverVars>>

HealthInit ==
    /\ InitWith({<<>>}, {})
    /\ retry = RetryIdle
    /\ protocol = ProtocolIdle
    /\ docker = NoDocker
    /\ launchers = NoLaunchers
    /\ mcp \in {McpConstructed("full", memory_available) :
                   memory_available \in BOOLEAN}
    /\ tasks = [t \in TaskIds |-> NoWrappedCall]
    /\ error_stats = NoErrors

HealthNext ==
    \/ Initialize
    \/ WrappedCallStart
    \/ WrappedCallFails
    \/ WrappedCallRetries
    \/ WrappedCallSucceeds
    \/ HandleSystemHealth

HealthSpec == HealthInit /\ [][HealthNext]_vars

----------------------------------------------------------------------------
(* Container start-up: ensure_qdrant_container of the uvx entry point        *)
(* (src/src/mcp_container_launcher.py) and of the start script                *)
(* (src/scripts/start_mcp_container.py).  Two launcher processes use the same *)
(* container name; every docker command is a process of its own, so a step    *)
(* of a launcher is one docker command and the launchers interleave between   *)
(* the commands.  The daemon keeps container names unique.                    *)

LauncherIds == {1, 2}

\* LaunchConfig and the position of a launcher; script tells the start script
\* from the uvx entry point, issued lists the docker start and docker run
\* commands the launcher has issued.
Launcher(script, skip_qdrant_start) ==
    [pc |-> "begin", script |-> script, skip_qdrant_start |-> skip_qdrant_start,
     found_running |-> FALSE, issued |-> <<>>]

\* ensure_qdrant_container: the tests of skip_qdrant_start and of
\* container_running (docker inspect --format {{.State.Running}}).
ContainerRunning ==
    \E l \in LauncherIds :
        /\ launchers[l].pc = "begin"
        /\ launchers' = [launchers EXCEPT
               ![l].pc = IF launchers[l].skip_qdrant_start
                            \/ docker.container = "running"
                         THEN "done" ELSE "exists",
               ![l].found_running = ~launchers[l].skip_qdrant_start
                                    /\ docker.container = "running"]
        /\ UNCHANGED <<svcVars, current_user, storeVars, last, retry, mcp, protocol,
                       tasks, error_stats, docker>>

\* ensure_qdrant_container: container_exists (docker inspect)
ContainerExists ==
    \E l \in LauncherIds :
        /\ launchers[l].pc = "exists"
        /\ launchers' = [launchers EXCEPT
               ![l].pc = IF docker.container # "absent" THEN "start" ELSE "run"]
        /\ UNCHANGED <<svcVars, current_user, storeVars, last, retry, mcp, protocol,
                       tasks, error_stats, docker>>

\* run_command(["docker", "start", name]): starting a running container succeeds.
DockerStart ==
    \E l \in LauncherIds :
        /\ launchers[l].pc = "start"
        /\ docker' = [docker EXCEPT !.container = "running"]
        /\ launchers' = [launchers EXCEPT ![l].pc = "done",
                                          ![l].issued = Append(@, "start")]
        /\ UNCHANGED <<svcVars, current_user, storeVars, last, retry, mcp, protocol,
                       tasks, error_stats>>

\* What a launcher does after docker run --pull-always failed because the name
\* is already in use: the entry point starts the container (lines 122-124), the
\* start script raises (lines 154-158).
AfterNameConflict(launcher) ==
    IF launcher.script THEN "error" ELSE "start_unchecked"

\* docker run -d --pull-always --name <name>: the daemon's client does not know
\* the flag, or the name is taken, or the container is created and started.
DockerRunPullAlways ==
    \E l \in LauncherIds :
        /\ launchers[l].pc = "run"
        /\ launchers' = [launchers EXCEPT
               ![l].pc = IF ~docker.pull_always_known THEN "run_pull"
                         ELSE IF docker.container # "absent"
                             THEN AfterNameConflict(launchers[l])
                         ELSE "done",
               ![l].issued = Append(@, "run")]
        /\ docker' = IF docker.pull_always_known /\ docker.container = "absent"
                     THEN [docker EXCEPT !.container = "running", !.created = @ + 1]
                     ELSE docker
        /\ UNCHANGED <<svcVars, current_user, storeVars, last, retry, mcp, protocol,
                       tasks, error_stats>>

\* docker run -d --pull always --name <name>, after "unknown flag:
\* --pull-always": a CommandError of this command is not caught.
DockerRunPull ==
    \E l \in LauncherIds :
        /\ launchers[l].pc = "run_pull"
        /\ launchers' = [launchers EXCEPT
               ![l].pc = IF docker.container # "absent" THEN "error" ELSE "done",
               ![l].issued = Append(@, "run")]
        /\ docker' = IF docker.container = "absent"
                     THEN [docker EXCEPT !.container = "running", !.created = @ + 1]
                     ELSE docker
        /\ UNCHANGED <<svcVars, current_user, storeVars, last, retry, mcp, protocol,
                       tasks, error_stats>>

\* run_command(["docker", "start", name], check=False)
DockerStartUnchecked ==
    \E l \in LauncherIds :
        /\ launchers[l].pc = "start_unchecked"
        /\ docker' = [docker EXCEPT !.container = "running"]
        /\ launchers' = [launchers EXCEPT ![l].pc = "done",
                                          ![l].issued = Append(@, "start")]
        /\ UNCHANGED <<svcVars, current_user, storeVars, last, retry, mcp, protocol,
                       tasks, error_stats>>

\* Two launchers of the same kind are started while the container is absent,
\* stopped or running; the docker client knows --pull-always or not.
LaunchInit ==
    /\ InitWith({<<>>}, {})
    /\ retry = RetryIdle
    /\ mcp = McpIdle
    /\ protocol = ProtocolIdle
    /\ tasks = NoTasks
    /\ error_stats = NoErrors
    /\ docker \in {[container |-> c, created |-> IF c = "absent" THEN 0 ELSE 1,
                     pull_always_known |-> k] :
                       c \in {"absent", "stopped", "running"}, k \in BOOLEAN}
    /\ \E script \in BOOLEAN :
          launchers \in [LauncherIds -> {Launcher(script, skip) : skip \in BOOLEAN}]

LaunchNext ==
    \/ ContainerRunning
    \/ ContainerExists
    \/ DockerStart
    \/ DockerRunPullAlways
    \/ DockerRunPull
    \/ DockerStartUnchecked

LaunchSpec == LaunchInit /\ [][LaunchNext]_vars

----------------------------------------------------------------------------
(* Claims about the record operations, checked under Spec *)

\* A successful add of the last call's content to its target.
AddSucceeded == last.op = "add_memory" /\ last.success

\* C1: a successful add of content s to collection c leaves exactly one record for
\* s in c (one record with the id of s, one record whose content is s), which is
\* the record of this add; when c held a record for s before the add, the number
\* of records of c stays the same.
C1_AddTwiceOneRecord ==
    [][(last'.op = "add_memory" /\ last'.success) =>
        LET c == last'.name
            s == last'.content
        IN /\ Cardinality({p \in points'[c] : p.id = GenerateContentHash(s)}) = 1
           /\ Cardinality({p \in points'[c] : p.payload.content = s}) = 1
           /\ [id |-> GenerateContentHash(s), payload |-> last'.payload] \in points'[c]
           /\ (\E p \in points[c] : p.id = GenerateContentHash(s)) =>
                  Cardinality(points'[c]) = Cardinality(points[c])]_vars

\* C1 witness: a second add of the same content to the same collection succeeded,
\* and the collection holds one record.
C1_Witness ==
    /\ AddSucceeded
    /\ last.existed
    /\ Cardinality(points[last.name]) = 1

\* C2: the id of a record is a function of its content alone: every id the service
\* computes (the memory_id it answers, the id of every stored point, in every
\* collection, whoever the user was) is the id EmbeddingService computes for the
\* same content.
C2_IdFunctionOfContent ==
    /\ \A c \in Names : \A p \in points[c] :
          p.id = EmbeddingGenerateContentHash(p.payload.content)
    /\ AddSucceeded => last.memory_id = EmbeddingGenerateContentHash(last.content)

\* C2 witness: the same content is stored in two collections, added by two users,
\* under one id.
C2_Witness ==
    \E c1, c2 \in Names : \E p1 \in points[c1], p2 \in points[c2] :
        /\ c1 # c2
        /\ p1.payload.content = p2.payload.content
        /\ p1.payload.added_by # p2.payload.added_by
        /\ p1.id = p2.id

\* The last call was an add or a delete of a record in a registered collection by
\* a principal that is in neither its write set nor its admin set.
ByNonWriter ==
    /\ last.op \in {"add_memory", "delete_memory"}
    /\ Registered(last.name)
    /\ ~MayWrite(last.name, last.user)

\* C3: an add or a delete of a record by a principal that is in neither the write
\* set nor the admin set of the collection never succeeds: it is answered
\* Forbidden (or fails earlier: the service is not initialized, the store raises).
C3_NonWriterForbidden ==
    ByNonWriter =>
        /\ ~last.success
        /\ last.error \in {"Forbidden", "NotInitialized", "Exception"}

\* C4: an add is classified by the similarity sim of the nearest record of the
\* target: sim >= similarity_threshold is a duplicate (no record is added);
\* near_miss_threshold <= sim < similarity_threshold adds a record and logs a
\* near-miss; sim < near_miss_threshold adds a record and logs nothing.
C4_DedupClassification ==
    [][(last'.op = "add_memory" /\ last'.success /\ points[last'.name] # {}) =>
        LET c == last'.name
            sim == NearestSimilarity(points[c], last'.content)
        IN /\ sim >= similarity_threshold =>
                  Cardinality(points'[c]) = Cardinality(points[c])
           /\ (sim >= near_miss_threshold /\ sim < similarity_threshold) =>
                  /\ Cardinality(points'[c]) = Cardinality(points[c]) + 1
                  /\ last'.diagnostic = "near_miss"
           /\ sim < near_miss_threshold =>
                  /\ Cardinality(points'[c]) = Cardinality(points[c]) + 1
                  /\ last'.diagnostic = ""]_vars

\* C19: the payload stored by a successful add holds, under the reserved keys,
\* the values of the service: the added content, the target collection, the
\* acting principal, the time of the write and the tags argument, whatever the
\* caller's metadata holds.
C19_ReservedKeysKept ==
    AddSucceeded =>
        /\ [id |-> last.memory_id, payload |-> last.payload] \in points[last.name]
        /\ last.payload.content = last.content
        /\ last.payload.collection = last.name
        /\ last.payload.added_by = last.user
        /\ last.payload.timestamp = "now"
        /\ last.payload.tags \in {extra.tags : extra \in Extras}

\* C22: add_memory, called on an initialized service with the name of a
\* collection that does not exist, fails with NotFound and leaves the store's
\* collections and records, and the registry, as they were.
C22_AddToMissingCollection ==
    [][(/\ last'.op = "add_memory"
        /\ EnsureInitialized
        /\ ~Exists(last'.name)
        /\ ~Registered(last'.name))
       => /\ ~last'.success
          /\ last'.error = "NotFound"
          /\ UNCHANGED <<collections, points, registry>>]_vars

\* C22 witness: an add_memory on an initialized service was refused with
\* NotFound for a collection that the store does not list, while another
\* collection exists and holds a record.
C22_Witness ==
    /\ last.op = "add_memory"
    /\ EnsureInitialized
    /\ last.error = "NotFound"
    /\ ~Exists(last.name)
    /\ \E c \in Range(collections) : points[c] # {}

----------------------------------------------------------------------------
(* Claims about the legacy agent routing, checked under AgentSpec *)

\* The per-agent collection of the call that is being answered.
SpecificOf(call) == AgentCollectionName(TargetAgentId(call.name))

\* C5: add_to_agent_memory for an agent whose own collection does not exist, while
\* some collection with the agent prefix exists, leaves the set of collections as
\* it was and targets the first agent collection of the listing; a call that
\* succeeds has written its record there and nowhere else, one that fails has
\* written nothing.
C5_FirstFoundFallback ==
    [][(/\ last'.op = "add_to_agent_memory"
        /\ EnsureInitialized
        /\ ~Exists(SpecificOf(last'))
        /\ AgentCollections # <<>>) =>
        /\ collections' = collections
        /\ SpecificOf(last') \notin Range(collections')
        /\ last'.target \in {"", AgentCollections[1]}
        /\ last'.success =>
              /\ last'.target = AgentCollections[1]
              /\ [id |-> last'.memory_id, payload |-> last'.payload]
                    \in points'[AgentCollections[1]]
              /\ \A n \in Names \ {AgentCollections[1]} : points'[n] = points[n]
        /\ ~last'.success => points' = points]_vars

\* C5 witness: agent 42 has no collection, two agent collections exist, and the
\* record went to the first of the listing.
C5_Witness ==
    /\ last.op = "add_to_agent_memory"
    /\ last.name = "42"
    /\ last.success
    /\ ~Exists(AgentCollectionName("42"))
    /\ Len(AgentCollections) = 2
    /\ last.target = AgentCollections[1]
    /\ \E p \in points[AgentCollections[1]] : p.id = last.memory_id
    /\ points[AgentCollections[2]] = {}

C26_OwnCollectionOnly ==
    [][(/\ last'.op = "add_to_agent_memory"
        /\ EnsureInitialized
        /\ Exists(SpecificOf(last'))) =>
        /\ \A n \in Names \ {SpecificOf(last')} : points'[n] = points[n]
        /\ last'.success =>
              /\ last'.target = SpecificOf(last')
              /\ [id |-> last'.memory_id, payload |-> last'.payload]
                    \in points'[SpecificOf(last')]]_vars

----------------------------------------------------------------------------
(* Claims about the collection tools, checked under ToolSpec *)

\* C7: a delete_collection request without confirm (absent or false) never changes
\* the collections, the records or the registry and never reports success; for
\* every collection name it is answered ConfirmationRequired.
C7_DeleteNeedsConfirm ==
    [][(last'.op = "handle_delete_collection" /\ ~last'.confirm) =>
        /\ UNCHANGED <<collections, points, registry>>
        /\ ~last'.success
        /\ last'.name # "" => last'.error = "ConfirmationRequired"]_vars

\* C7 witness: a request without confirm for an existing collection that holds a
\* record was answered ConfirmationRequired.
C7_Witness ==
    /\ last.op = "handle_delete_collection"
    /\ ~last.confirm
    /\ last.error = "ConfirmationRequired"
    /\ EnsureInitialized
    /\ Exists(last.name)
    /\ points[last.name] # {}

\* C8: after a delete_collection request with confirm = true is answered with a
\* success response, the collection is not listed and none of its records is left.
C8_ConfirmedDeleteRemoves ==
    (/\ last.op = "handle_delete_collection"
     /\ last.confirm
     /\ last.success
     /\ EnsureInitialized) =>
        /\ ~Exists(last.name)
        /\ ~Registered(last.name)
        /\ points[last.name] = {}

\* C10: a tool response that reports success implies that the operation took
\* effect: after create_collection the collection exists, after delete_collection
\* it does not, after add_to_collection the record is stored.
C10_SuccessMeansEffect ==
    /\ (last.op = "handle_create_collection" /\ last.success) =>
          (Exists(last.name) /\ Registered(last.name))
    /\ (last.op = "handle_delete_collection" /\ last.success) =>
          (~Exists(last.name) /\ ~Registered(last.name))
    /\ (last.op = "handle_add_to_collection" /\ last.success) =>
          \E p \in points[last.name] : p.id = last.memory_id

----------------------------------------------------------------------------
(* Claims about the retry policy, checked under RetrySpec *)

\* C9: a call whose failure is transient and never resolves fails permanently
\* after exactly retry_attempts tries, no try is made beyond retry_attempts, and
\* every delay between two tries is at least base_delay and at most max_delay,
\* with jitter enabled or not.
C9_RetryBound ==
    retry.status # "idle" =>
        /\ (retry.status = "failed" /\ IsTransient(retry.category)) =>
              retry.tries = retry.cfg.retry_attempts
        /\ retry.tries <= retry.cfg.retry_attempts
        /\ \A i \in 1..Len(retry.delays) :
              /\ retry.delays[i] >= retry.cfg.base_delay
              /\ retry.delays[i] <= retry.cfg.max_delay

\* C23: a try that fails in the category validation or permission ends the
\* call as failed at once, with no backoff delay added, so that a call whose
\* first try fails so was tried exactly once; and a failed call is not tried
\* again.
C23_NonTransientNotRetried ==
    [][/\ (/\ retry.status = "running"
           /\ retry'.tries = retry.tries + 1
           /\ retry'.status # "succeeded"
           /\ retry'.category \in {"validation", "permission"})
          => /\ retry'.status = "failed"
             /\ retry'.delays = retry.delays
             /\ retry.tries = 0 => (retry'.tries = 1 /\ retry'.delays = <<>>)
       /\ retry.status = "failed" => retry'.tries = 0]_vars

\* C23 witness: under a configuration of three attempts the first try failed
\* in the category validation, and the call has failed after that one try and
\* without a delay.
C23_Witness ==
    /\ retry.status = "failed"
    /\ retry.cfg.retry_attempts = retry_attempts
    /\ retry.category = "validation"
    /\ retry.tries = 1
    /\ retry.delays = <<>>

----------------------------------------------------------------------------
(* Claims about search, checked under SearchSpec *)

\* The state the scenario leads to: collection "notes", made by alice with the
\* default permissions, holds the one record alice added, "buy milk", and the
\* last call is search("milk", collections=["notes"], limit=5, min_score=0.1).
ScenarioSearched ==
    /\ EnsureInitialized
    /\ Registered("notes") /\ Exists("notes")
    /\ registry["notes"] = [permissions |-> DefaultPermissions("alice"),
                            created_by |-> "alice"]
    /\ Cardinality(points["notes"]) = 1
    /\ \A p \in points["notes"] :
          p.payload.content = "buy milk" /\ p.payload.added_by = "alice"
    /\ last.op = "search_memory"
    /\ last.content = "milk"
    /\ last.searched = <<"notes">>
    /\ last.limit = 5
    /\ last.min_score = 10

\* C11: after create "notes" by alice with default permissions and one add of
\* "buy milk" by alice, search("milk", ["notes"], limit 5, min_score 0.1)
\* succeeds with exactly one result, whose content is "buy milk" and whose score
\* is greater than 0.
C11_ScenarioSearch ==
    ScenarioSearched =>
        /\ last.success
        /\ Len(last.results) = 1
        /\ last.results[1].payload.content = "buy milk"
        /\ last.results[1].collection = "notes"
        /\ last.results[1].score > 0
        /\ last.total_results = 1

\* C11 witness: the scenario was run from the empty store and the search
\* answered one result.
C11_Witness ==
    /\ ScenarioSearched
    /\ collections = <<"notes">>
    /\ mutations = 2
    /\ Len(last.results) = 1

\* The last call is a search that succeeded.
Searched == last.op \in {"search_memory", "_search_memory_sync"} /\ last.success

\* C20: a successful search answers at most limit entries, sorted by score in
\* descending order; every entry is a stored record of one of the searched
\* collections with its score, which is at least min_score; and every record of
\* a searched collection (one that was not left out) that scores at least
\* min_score is in the result, unless the result is full and none of its
\* entries scores lower than that record.
C20_SearchTopLimit ==
    Searched =>
        LET r == last.results
            q == last.content
        IN /\ Len(r) <= last.limit
           /\ \A i \in 1..Len(r) :
                 /\ r[i].score >= last.min_score
                 /\ r[i].collection \in Range(last.searched)
                 /\ \E p \in points[r[i].collection] :
                       /\ p.id = r[i].id
                       /\ p.payload = r[i].payload
                       /\ Score(q, p) = r[i].score
           /\ \A i, j \in 1..Len(r) : i < j => r[i].score >= r[j].score
           /\ \A c \in Range(last.searched) \ last.skipped :
                 \A p \in points[c] :
                    Score(q, p) >= last.min_score =>
                       \/ \E i \in 1..Len(r) :
                             r[i].id = p.id /\ r[i].collection = c
                       \/ /\ Len(r) = last.limit
                          /\ \A i \in 1..Len(r) : r[i].score >= Score(q, p)

\* C20 witness: two collections were searched with limit 1, both hold a record
\* that scores at least min_score, and the one entry of the result comes from
\* the second collection of the list.
C20_Witness ==
    /\ Searched
    /\ Len(last.searched) = 2
    /\ last.skipped = {}
    /\ last.limit = 1
    /\ \A c \in Range(last.searched) :
          \E p \in points[c] : Score(last.content, p) >= last.min_score
    /\ Len(last.results) = 1
    /\ last.results[1].collection = last.searched[2]
    /\ \A p \in points[last.searched[1]] :
          Score(last.content, p) < last.results[1].score

\* The answers a search of the collections of the last call's list for which
\* the store search did not fail could have given.
AnswersOfTheRest ==
    LET names == SelectSeq(last.searched, LAMBDA n : n \notin last.failed)
        legacy == last.op = "_search_memory_sync"
    IN {Truncate(SortByScore(first \o second), last.limit) :
           first \in IF Len(names) >= 1
                     THEN CollectionResults(names[1], last.content, last.limit,
                                            last.min_score, {}, legacy)
                     ELSE {<<>>},
           second \in IF Len(names) >= 2
                      THEN CollectionResults(names[2], last.content, last.limit,
                                             last.min_score, {}, legacy)
                      ELSE {<<>>}}

\* C21: a search during which the store search of a collection failed is
\* answered with success, and its results are the ranked, truncated answer of a
\* search of the other collections of the list alone.
C21_FailedCollectionSkipped ==
    (last.op \in {"search_memory", "_search_memory_sync"} /\ last.failed # {}) =>
        /\ last.success
        /\ last.results \in AnswersOfTheRest
        /\ \A i \in 1..Len(last.results) :
              last.results[i].collection \notin last.failed

\* C21 witness: two collections were searched, the store search of the second
\* failed although that collection exists and holds a record that scores
\* higher than the one entry answered, which comes from the first collection.
C21_Witness ==
    /\ Searched
    /\ Len(last.searched) = 2
    /\ last.failed = {last.searched[2]}
    /\ Exists(last.searched[2])
    /\ Len(last.results) = 1
    /\ last.results[1].collection = last.searched[1]
    /\ \E p \in points[last.searched[2]] :
          Score(last.content, p) > last.results[1].score

----------------------------------------------------------------------------
(* Claims about MemoryMCPServer, checked under McpSpec *)

\* C15: in tools-only mode every prompts/get, for every prompt name and whatever
\* the prompt handler would do, is answered with an error of code -32601 without
\* the prompt handler being called, and the list of available prompts is empty.
C15_ToolsOnlyNoPrompts ==
    mcp.server_mode = "tools-only" =>
        /\ mcp.op = "handle_prompt_get" =>
              /\ DOMAIN mcp.response = {"error"}
              /\ mcp.response.error.code = -32601
              /\ ~mcp.invoked
        /\ mcp.op = "get_available_prompts" =>
              /\ mcp.response.prompts = <<>>
              /\ ~mcp.invoked

\* C15 witness: a tools-only server that has a memory manager answered a
\* prompts/get with -32601.
C15_Witness ==
    /\ mcp.server_mode = "tools-only"
    /\ mcp.memory_manager
    /\ mcp.op = "handle_prompt_get"
    /\ mcp.response.error.code = -32601

\* C25: every call of handle_resource_read and of handle_prompt_get is answered
\* with a result and not with an exception: a contents array for a resource, a
\* description with messages for a prompt, or an error object whose code is
\* -32601, only for a prompt while prompts are unavailable (tools-only mode or
\* no prompt handlers), or -32603, only after the handler was called.
C25_NeverRaises ==
    mcp.op \in {"handle_resource_read", "handle_prompt_get"} =>
        LET r == mcp.response
        IN \/ /\ mcp.op = "handle_resource_read"
              /\ DOMAIN r = {"contents"}
              /\ Len(r.contents) = 1
              /\ r.contents[1].uri = mcp.name
           \/ /\ mcp.op = "handle_prompt_get"
              /\ DOMAIN r = {"description", "messages"}
              /\ Len(r.messages) = 1
           \/ /\ DOMAIN r = {"error"}
              /\ \/ /\ r.error.code = -32601
                    /\ mcp.op = "handle_prompt_get"
                    /\ mcp.server_mode = "tools-only" \/ ~mcp.prompt_handlers
                    /\ ~mcp.invoked
                 \/ /\ r.error.code = -32603
                    /\ mcp.invoked

\* C25 witness: the resource handler was called and the handling of what it
\* did failed without a message of the handler (it raised, returned None or
\* returned data that cannot be serialized); the answer is the error -32603.
C25_Witness ==
    /\ mcp.op = "handle_resource_read"
    /\ DOMAIN mcp.response = {"error"}
    /\ mcp.response.error.code = -32603
    /\ mcp.response.error.message = "Failed to read resource: raised"

----------------------------------------------------------------------------
(* Claims about the protocol loop, checked under ProtocolSpec and, for what *)
(* must eventually happen, under ProtocolLiveSpec                           *)

\* The step reads a line of the given kinds.
Reads(kinds) ==
    /\ Len(protocol'.lines) = Len(protocol.lines) + 1
    /\ protocol'.lines[Len(protocol'.lines)] \in kinds

\* The response to line n is in the output stream, whole.
Written(n) ==
    \E i \in 1..Len(protocol.output) :
        protocol.output[i].line = n /\ protocol.output[i].part = "newline"

\* C12: while the session is UNINITIALIZED, a request with a method other than
\* initialize is answered with a not-initialized error that carries its id, is
\* not dispatched and leaves the session UNINITIALIZED; the session leaves
\* UNINITIALIZED only by an initialize request, and then it is READY.
C12_OnlyInitializeBeforeReady ==
    [][protocol.session = "UNINITIALIZED" =>
        /\ Reads(Methods \ {"initialize"}) =>
              /\ protocol'.session = "UNINITIALIZED"
              /\ protocol'.in_flight = protocol.in_flight
              /\ protocol'.ready = protocol.ready \cup
                    {[line |-> Len(protocol'.lines), id |-> Len(protocol'.lines),
                      kind |-> "error", what |-> "not_initialized"]}
        /\ protocol'.session # "UNINITIALIZED" =>
              Reads({"initialize"}) /\ protocol'.session = "READY"]_vars

\* C12 witness: a tools/call that came first was answered not-initialized, no
\* task was dispatched, and a later initialize made the session READY.
C12_Witness ==
    /\ Len(protocol.lines) = 2
    /\ protocol.lines[1] = "tools/call"
    /\ protocol.lines[2] = "initialize"
    /\ protocol.session = "READY"
    /\ protocol.in_flight = {}
    /\ Written(1)
    /\ \E r \in protocol.ready : r.line = 2

\* C13: in the output stream the two chunks of a response are next to each
\* other: every body is followed by the newline of the same response (or is the
\* last chunk, of the response being written), every newline follows the body of
\* its response.
C13_WholeResponses ==
    LET out == protocol.output
    IN \A i \in 1..Len(out) :
          IF out[i].part = "body"
          THEN IF i = Len(out)
               THEN protocol.writing # <<>> /\ protocol.writing.line = out[i].line
               ELSE out[i + 1].line = out[i].line /\ out[i + 1].part = "newline"
          ELSE i > 1 /\ out[i - 1].line = out[i].line /\ out[i - 1].part = "body"

\* C13 witness: two tool calls were in flight at once and both have completed:
\* the response of one is half written while the response of the other waits.
C13_Witness ==
    /\ protocol.writing # <<>>
    /\ protocol.lines[protocol.writing.line] = "tools/call"
    /\ \E r \in protocol.ready : protocol.lines[r.line] = "tools/call"
    /\ Len(protocol.output) >= 3

\* C14: a response carries the id of the envelope it answers (null, 0, only for
\* a line that is not JSON); no envelope gets two responses; each envelope read
\* is in flight, waiting to be written, being written or written, and once
\* nothing is pending each has exactly one whole response in the output.
C14_CorrelationIds ==
    LET out == protocol.output
        pending(n) == {x \in {"in_flight"} : n \in protocol.in_flight} \cup
                      {r \in protocol.ready : r.line = n} \cup
                      {w \in {protocol.writing} : w # <<>> /\ w.line = n}
        bodies(n) == {i \in 1..Len(out) : out[i].line = n /\ out[i].part = "body"}
    IN /\ \A i \in 1..Len(out) :
             /\ out[i].line \in 1..Len(protocol.lines)
             /\ out[i].id = IF protocol.lines[out[i].line] = "invalid_json"
                            THEN 0 ELSE out[i].line
       /\ \A r \in protocol.ready :
             r.id = IF protocol.lines[r.line] = "invalid_json" THEN 0 ELSE r.line
       /\ \A n \in 1..Len(protocol.lines) :
             /\ Cardinality(bodies(n)) <= 1
             /\ Cardinality(bodies(n)) = 1 =>
                   (n \notin protocol.in_flight
                    /\ \A r \in protocol.ready : r.line # n)
             /\ Cardinality(bodies(n)) = 0 => Cardinality(pending(n)) = 1
             /\ (protocol.in_flight = {} /\ protocol.ready = {}
                 /\ protocol.writing = <<>>) => Written(n)

\* C14 witness: two tool calls were answered in the reverse of their order of
\* arrival, each response with the id of its request.
C14_Witness ==
    /\ Len(protocol.lines) = 3
    /\ protocol.lines[2] = "tools/call" /\ protocol.lines[3] = "tools/call"
    /\ Len(protocol.output) = 6
    /\ protocol.output[3].id = 3 /\ protocol.output[4].id = 3
    /\ protocol.output[5].id = 2 /\ protocol.output[6].id = 2

\* C16: SHUTTING_DOWN is entered by a shutdown request and never left; from then
\* on the process eventually exits; and when it has exited, no task is in flight
\* and every call that was in flight at the shutdown has its whole response in
\* the output.
C16_ShutdownDrains ==
    /\ [](protocol.session = "SHUTTING_DOWN" => [](protocol.session = "SHUTTING_DOWN"))
    /\ [](protocol.session = "SHUTTING_DOWN" => <>protocol.exited)
    /\ [](protocol.exited =>
            /\ protocol.session = "SHUTTING_DOWN"
            /\ protocol.in_flight = {} /\ protocol.ready = {}
            /\ protocol.writing = <<>>
            /\ \A n \in protocol.at_shutdown : Written(n))

\* C16 witness: the process has exited after a shutdown that arrived while a
\* tool call was in flight, and the response of that call was written after the
\* shutdown was read.
C16_Witness ==
    /\ protocol.exited
    /\ protocol.at_shutdown # {}
    /\ \A n \in protocol.at_shutdown : Written(n)

\* C17: a line that is not JSON or has no method queues a parse-error response,
\* dispatches nothing and leaves the session state as it was, and the loop goes
\* on: every request read, before or after such a line, is eventually answered
\* with a whole response.
C17_MalformedLineAnswered ==
    /\ [][Reads({"invalid_json", "no_method"}) =>
            /\ protocol'.session = protocol.session
            /\ protocol'.in_flight = protocol.in_flight
            /\ ~protocol'.exited
            /\ \E r \in protocol'.ready \ protocol.ready :
                  /\ r.line = Len(protocol'.lines)
                  /\ r.kind = "error" /\ r.what = "parse_error"]_vars
    /\ \A n \in 1..MaxLines : [](Len(protocol.lines) >= n => <>Written(n))

\* C17 witness: after a malformed line, answered with a parse error, a request
\* was read, dispatched and answered.
C17_Witness ==
    /\ Len(protocol.lines) = 3
    /\ protocol.lines[1] = "initialize"
    /\ protocol.lines[2] \in {"invalid_json", "no_method"}
    /\ protocol.lines[3] = "tools/call"
    /\ Written(2) /\ Written(3)

----------------------------------------------------------------------------
(* Claims about concurrent tool calls, checked under CreateRaceSpec *)

\* C18: a create_collection request for a name that is taken is answered with the
\* failure AlreadyExists and leaves the collections, the records and the
\* registry as they were; of two requests for one free name that were in flight
\* together, one is answered with success and the other with AlreadyExists.
C18_DuplicateCreate ==
    [][/\ \A t \in TaskIds :
            (/\ tasks[t].pc = "in_flight" /\ tasks'[t].pc = "done"
             /\ tasks'[t].ready /\ tasks'[t].taken) =>
                /\ UNCHANGED <<collections, points, registry>>
                /\ tasks'[t].is_error
                /\ tasks'[t].text = "AlreadyExists"
       /\ \A t, u \in TaskIds :
            (/\ t # u
             /\ tasks'[t].pc = "done" /\ tasks'[u].pc = "done"
             /\ tasks'[t].name = tasks'[u].name
             /\ tasks'[t].ready /\ tasks'[u].ready
             /\ ~tasks'[t].taken /\ tasks'[t].service_error = "") =>
                /\ ~tasks'[t].is_error
                /\ tasks'[u].is_error /\ tasks'[u].text = "AlreadyExists"]_vars
----------------------------------------------------------------------------
(* Claims about the error counters and the health report, checked under *)
(* HealthSpec                                                           *)

\* The sum of the counts of errors_by_category.
CategoryTotal(stats) ==
    CategoryCount(stats, "connectivity") + CategoryCount(stats, "storage")
      + CategoryCount(stats, "validation") + CategoryCount(stats, "permission")

\* C24: no step lowers total_errors, recovery_attempts, successful_recoveries
\* or the count of a category, and after every step, however the failures of
\* the tasks in flight interleave, total_errors is the number of failure events
\* the tasks have recorded and is the sum of errors_by_category.
C24_CountersExact ==
    [][/\ error_stats'.total_errors >= error_stats.total_errors
       /\ error_stats'.recovery_attempts >= error_stats.recovery_attempts
       /\ error_stats'.successful_recoveries >= error_stats.successful_recoveries
       /\ \A c \in FailureCategories :
             CategoryCount(error_stats', c) >= CategoryCount(error_stats, c)
       /\ error_stats'.total_errors = FailureEvents(tasks')
       /\ error_stats'.total_errors = CategoryTotal(error_stats')]_vars

\* C24 witness: both tasks have a call in flight, each has recorded a failure,
\* the two in different categories, and a recovery was attempted.
C24_Witness ==
    /\ \A t \in TaskIds : tasks[t].pc \in {"trying", "backoff"}
    /\ \A t \in TaskIds : tasks[t].failures >= 1
    /\ error_stats.total_errors >= 2
    /\ CategoryCount(error_stats, "storage") >= 1
    /\ CategoryCount(error_stats, "connectivity") >= 1
    /\ error_stats.recovery_attempts >= 1

\* The components of a health report that are checked, and those of them
\* that are unavailable or in error.
CheckedComponents(report) ==
    {c \in DOMAIN report.components : report.components[c].dict}
FailedComponents(report) ==
    {c \in CheckedComponents(report) :
        report.components[c].status \in {"unavailable", "error"}}

\* C29: the overall status of a health report is healthy exactly when no
\* checked component is unavailable or in error, critical when every checked
\* component is, and degraded when some but not all of them are.
C29_OverallStatus ==
    last.op = "handle_system_health" =>
        last.payload.overall_status =
            IF FailedComponents(last.payload) = {} THEN "healthy"
            ELSE IF FailedComponents(last.payload) = CheckedComponents(last.payload)
                THEN "critical"
            ELSE "degraded"

----------------------------------------------------------------------------
(* Claims about container start-up, checked under LaunchSpec *)

\* C30: a launcher that was told to skip the start, or that found the container
\* running, issues no docker start and no docker run; whatever the
\* interleaving of two launchers, at most one container of the name is
\* created, and no launcher ends with an error.
C30_SingleContainer ==
    /\ docker.created <= 1
    /\ \A l \in LauncherIds :
          /\ (launchers[l].skip_qdrant_start \/ launchers[l].found_running)
                => launchers[l].issued = <<>>
          /\ launchers[l].pc # "error"

----------------------------------------------------------------------------
(* Claims about the initialization guard, checked under PublicSpec *)

\* The public operations of GenericMemoryService that C27 names.
PublicOperations ==
    {"create_collection", "list_collections", "get_collection",
     "update_collection", "delete_collection", "add_memory", "search_memory",
     "get_memory", "delete_memory", "get_collection_stats",
     "add_to_global_memory", "add_to_learned_memory", "add_to_agent_memory",
     "query_memory", "compare_against_learned_memory"}

\* C27: while the service is not initialized (initialized is false, or the
\* client, the collection manager or the embedding model is missing) a call of
\* a public operation fails with "Service not initialized", leaves the store
\* and the registry as they were, and answers nothing read from the store.
C27_GuardedWhileUninitialized ==
    [][(/\ last'.op \in PublicOperations
        /\ ~(initialized /\ client /\ collection_manager /\ embedding_model))
       => /\ ~last'.success
          /\ last'.error = "NotInitialized"
          /\ last'.payload = <<>>
          /\ last'.results = <<>>
          /\ UNCHANGED storeVars]_vars

\* C27 witness: the client and the collection manager are set but the
\* embedding model is missing, the store holds records, and a legacy query was
\* refused as not initialized.
C27_Witness ==
    /\ last.op = "query_memory"
    /\ last.error = "NotInitialized"
    /\ client /\ collection_manager /\ ~embedding_model
    /\ points["notes"] # {}

====
